---- MODULE Spec2Model ----
(***************************************************************************)
(* A model of the UHDM -> Yosys AST lowering engine of                     *)
(* src/uhdm-plugin/UhdmAst.cc (BUILD_UPSTREAM configuration).              *)
(*                                                                         *)
(* The module holds several specifications over one set of variables:      *)
(*   Spec         the module registry: UhdmAst::process_module             *)
(*   SpecFlatten  range flattening: convert_packed_unpacked_range          *)
(*   SpecAccess   access rewriting: simplify and convert_range             *)
(*   SpecStruct   struct path expansion: expand_dot                        *)
(*   SpecDesign   the per-unit lowering loop of UhdmAst::process_design    *)
(*   SpecObject   the lowering of single objects: UhdmAst::process_object  *)
(* Each specification leaves the variables of the others at their idle     *)
(* value.                                                                  *)
(***************************************************************************)
EXTENDS Integers, Sequences, FiniteSets, TLC

(***************************************************************************)
(* Bounds of the model.                                                    *)
(***************************************************************************)
\* process_module calls (definition visits and instantiations) in one run
MaxVisits == 3
\* dimensions (packed plus unpacked) of a declaration
MaxDims == 2
\* calls of convert_packed_unpacked_range on one declaration
MaxCalls == 2
\* the largest number of members of a struct
MaxFields == 3
\* the largest number of top-level units of a design
MaxUnits == 3
\* the largest number of objects handed to process_object in one run
MaxObjects == 2

(***************************************************************************)
(* Program constants.                                                      *)
(***************************************************************************)
\* "if (module_parameters.size() > 60)"
ParamodThreshold == 60

VARIABLES
    top_nodes,      \* shared.top_nodes: registered name -> entity (index in nodes)
    nodes,          \* every AST_MODULE entity ever allocated, in allocation order
    cells,          \* the AST_CELL nodes built by instantiations, in visit order
    visits,         \* number of process_module calls so far
    filled          \* types whose definition was visited onto a placeholder -> entity

modVars == <<top_nodes, nodes, cells, visits, filled>>

VARIABLES
    wire,           \* the declaration node that the scope table points to
    declared,       \* the source text: the ranges as declared, outermost first,
                    \* and the selectors of the access: [packed, unpacked, selectors]
    calls,          \* calls of convert_packed_unpacked_range on it so far
    after_first,    \* the declaration as the first call left it
    current_scope,  \* AST_INTERNAL::current_scope: name -> declaration
    ident,          \* the access expression (AST_IDENTIFIER) being simplified
    struct_node,    \* the AST_STRUCT under the typedef that types the declaration
    visited,        \* the nodes the simplify() walk has passed
    aborted         \* a log_assert or log_error ended the process

flatVars ==
    <<wire, declared, calls, after_first, current_scope, ident, struct_node,
      visited, aborted>>

VARIABLES
    pc,              \* where process_design is: the loop it is in, or "done"
    order,           \* the order in which shared.top_nodes is iterated
    pos,             \* the place in order of the unit the loop is at
    child_i,         \* inside a unit: the child simplify() comes to next; else 0
    current_ast_mod, \* AST_INTERNAL::current_ast_mod: a unit's name, "" if unset
    design,          \* the children of the AST_DESIGN node, by name
    designs_seen,    \* visit_designs: the designs whose children were appended
    root,            \* the children of the node visit_designs returns, by name
    simplify_calls   \* the units simplify() was called on, in call order

rootVars == <<designs_seen, root, simplify_calls>>

desVars == <<pc, order, pos, child_i, current_ast_mod, design, rootVars>>

VARIABLES
    objects,         \* the input objects of one one-to-many relation, in order
    obj_i,           \* the object vpi_scan returns next
    lowered,         \* what process_object returned for each object so far
    handled,         \* shared.report: the objects marked handled
    warnings,        \* warnings logged so far
    port_id,         \* shared: the last port id handed out
    stop_on_error,   \* shared.stop_on_error
    errored          \* logv_error ended the run

objVars ==
    <<objects, obj_i, lowered, handled, warnings, port_id, stop_on_error, errored>>

VARIABLES
    mod_children,    \* the children of the module that is being built
    inserted,        \* the insertions into that module so far
    stream,          \* a streaming operator and the loop made from it
    loop_pc,         \* where the run of that loop is
    loop_i,          \* the value of the loop counter
    iterations       \* the part selects each run of the loop body assigned

procVars == <<mod_children, inserted, stream, loop_pc, loop_i, iterations>>

vars == <<modVars, flatVars, desVars, objVars, procVars>>

(***************************************************************************)
(* Helpers on sequences and numbers.                                       *)
(***************************************************************************)
Range(s) == {s[i] : i \in DOMAIN s}

DigitChar(d) ==
    CASE d = 0 -> "0" [] d = 1 -> "1" [] d = 2 -> "2" [] d = 3 -> "3"
      [] d = 4 -> "4" [] d = 5 -> "5" [] d = 6 -> "6" [] d = 7 -> "7"
      [] d = 8 -> "8" [] d = 9 -> "9"

\* std::to_string of a non-negative integer
RECURSIVE to_string(_)
to_string(n) ==
    IF n < 10 THEN DigitChar(n) ELSE to_string(n \div 10) \o DigitChar(n % 10)

(***************************************************************************)
(* AST nodes.  One record shape serves every node kind:                    *)
(*   type      the node kind (AST_PARAMETER, AST_CONSTANT, ...)            *)
(*   str       the node's name, or the text of a string constant           *)
(*   nbits     bits.size() of a constant                                   *)
(*   integer   the 32-bit integer field of a constant                      *)
(*   value     the whole value of a constant as 32-bit words, low word     *)
(*             first (a real: its value in tenths)                         *)
(*   kids      the children                                                *)
(***************************************************************************)
Node(type, str) ==
    [type |-> type, str |-> str, nbits |-> 0, integer |-> 0, value |-> <<>>,
     kids |-> <<>>, is_input |-> FALSE, is_output |-> FALSE]

\* AstNode::mkconst_int / const2ast: a constant of `width` bits whose value is
\* given as 32-bit words; the integer field keeps the low word only
mkconst_bits(words, width) ==
    [Node("AST_CONSTANT", "") EXCEPT !.nbits = width, !.integer = words[1], !.value = words]

mkconst_int(v, width) == mkconst_bits(<<v>>, width)

\* mkconst_real: no bits, integer 0; the value lives in realvalue
mkconst_real(tenths) ==
    [Node("AST_REALVALUE", "") EXCEPT !.value = <<tenths>>]

\* AstNode::mkconst_str: eight bits per character
mkconst_str(s) ==
    [Node("AST_CONSTANT", s) EXCEPT !.nbits = 8 * Len(s)]

\* a parameter assignment node: process_param_assign puts the value first
ParamNode(type, name, val) == [Node(type, name) EXCEPT !.kids = <<val>>]

(***************************************************************************)
(* add_or_replace_child(parent, child), on the parent's child list.        *)
(***************************************************************************)
\* the first index of a set of indices (std::find_if), 0 when there is none
FirstIndex(S) == IF S = {} THEN 0 ELSE CHOOSE i \in S : \A j \in S : i <= j

InsertAt(s, i, e) == SubSeq(s, 1, i - 1) \o <<e>> \o SubSeq(s, i, Len(s))

add_or_replace_child(children, child) ==
    LET SameName == {i \in DOMAIN children : children[i].str = child.str}
        IsInitial == {i \in DOMAIN children : children[i].type = "AST_INITIAL"}
        IsAlways == {i \in DOMAIN children : children[i].type = "AST_ALWAYS"}
    IN
    IF child.str /= ""
    THEN LET i == FirstIndex(SameName) IN
         IF i /= 0
         THEN LET old == children[i]
                  \* a port direction already set is copied to the new child
                  c1 == IF old.is_input \/ old.is_output
                        THEN [child EXCEPT !.is_input = old.is_input,
                                           !.is_output = old.is_output,
                                           !.type = IF child.type = "AST_MEMORY"
                                                    THEN "AST_WIRE" ELSE child.type]
                        ELSE child
                  \* children of the replaced node are kept if the new one has none
                  c2 == IF old.kids /= <<>> /\ c1.kids = <<>>
                        THEN [c1 EXCEPT !.kids = old.kids]
                        ELSE c1
              IN [children EXCEPT ![i] = c2]
         ELSE Append(children, child)
    ELSE IF child.type = "AST_INITIAL"
    THEN LET i == FirstIndex(IsInitial) IN
         IF i /= 0
         THEN \* one AST_INITIAL, one AST_BLOCK: merge the contents
              LET initial == children[i]
                  block == initial.kids[1]
                  merged == [block EXCEPT !.kids = block.kids \o child.kids[1].kids]
              IN [children EXCEPT ![i] =
                     [initial EXCEPT !.kids = <<merged>> \o Tail(initial.kids)
                                               \o Tail(child.kids)]]
         ELSE LET a == FirstIndex(IsAlways) IN
              IF a /= 0 THEN InsertAt(children, a, child) ELSE Append(children, child)
    ELSE Append(children, child)

RECURSIVE add_children(_, _)
add_children(children, new) ==
    IF new = <<>> THEN children
    ELSE add_children(add_or_replace_child(children, Head(new)), Tail(new))

(***************************************************************************)
(* The design database seen by process_module: two module types, the       *)
(* children their definitions carry, and the instantiations of them.       *)
(***************************************************************************)
Types == {"\\M", "\\N"}

\* a 49-character string constant: with "\\W=32'd8" and "\\S=" in front of it
\* the serialized assignment is 8 + 3 + 49 = 60 characters long
Str49 == "0123456789012345678901234567890123456789012345678"

Str50 == Str49 \o "9"

\* the parameters, the local parameter and the net of a definition, as
\* vpiParameter / vpiParamAssign / vpiNet deliver them, with the default values
DefChildren(T) ==
    << ParamNode("AST_PARAMETER", "\\W", mkconst_int(8, 32)),
       ParamNode("AST_PARAMETER", "\\R", mkconst_real(15)),
       ParamNode("AST_PARAMETER", "\\S", mkconst_str("a")),
       ParamNode("AST_LOCALPARAM", "\\L", mkconst_int(1, 32)),
       Node("AST_WIRE", "\\x") >>

\* the nets and ports of an elaborated instance (vpiNet, vpiPort of the instance)
InstChildren == << Node("AST_WIRE", "\\x") >>

\* the parameter assignments an instantiation may carry (vpiParamAssign)
ParamAssignments ==
    { << >>,
      << ParamNode("AST_PARAMETER", "\\W", mkconst_int(8, 32)) >>,
      << ParamNode("AST_PARAMETER", "\\W", mkconst_int(16, 32)) >>,
      << ParamNode("AST_PARAMETER", "\\W", mkconst_bits(<<8, 1>>, 64)) >>,
      << ParamNode("AST_PARAMETER", "\\W", mkconst_bits(<<8, 2>>, 64)) >>,
      << ParamNode("AST_PARAMETER", "\\R", mkconst_real(15)) >>,
      << ParamNode("AST_PARAMETER", "\\R", mkconst_real(25)) >>,
      << ParamNode("AST_PARAMETER", "\\W", mkconst_int(8, 32)),
         ParamNode("AST_PARAMETER", "\\S", mkconst_str(Str49)) >>,
      << ParamNode("AST_PARAMETER", "\\W", mkconst_int(8, 32)),
         ParamNode("AST_PARAMETER", "\\S", mkconst_str(Str50)) >>,
      << ParamNode("AST_LOCALPARAM", "\\L", mkconst_int(1, 32)) >> }

\* an instantiation: the type (vpiDefName), the parameter assignments and
\* vpiCellInstance
Instantiations ==
    [type : {"\\M"}, pa : ParamAssignments, cell_instance : {0}]
      \cup [type : {"\\M"}, cell_instance : {1},
            pa : {pa \in ParamAssignments : Len(pa) = 1 /\ pa[1].str = "\\W"
                                            /\ pa[1].kids[1].nbits = 32}]
      \cup [type : {"\\N"}, cell_instance : {0},
            pa : {pa \in ParamAssignments : pa = << >> \/ (Len(pa) = 1 /\ pa[1].str = "\\W"
                                            /\ pa[1].kids[1].nbits = 32)}]

(***************************************************************************)
(* The specialized module name (process_module, the instance branch).      *)
(***************************************************************************)
\* libs/sha1: the digest is kept symbolic, one digest per input
sha1(s) == "{sha1:" \o s \o "}"

\* one "name=value" item of module_parameters
SerializeParam(node) ==
    IF node.kids[1].str /= ""
    THEN node.str \o "=" \o node.kids[1].str
    ELSE node.str \o "=" \o to_string(node.kids[1].nbits) \o "'d"
                  \o to_string(node.kids[1].integer)

\* module_parameters: the AST_PARAMETER assignments, serialized in visit order,
\* and only if the type is registered already
RECURSIVE SerializeParams(_, _)
SerializeParams(pa, registered) ==
    IF pa = << >> THEN ""
    ELSE (IF Head(pa).type = "AST_PARAMETER" /\ registered
          THEN SerializeParam(Head(pa)) ELSE "")
         \o SerializeParams(Tail(pa), registered)

\* mutant: the threshold compared with >= instead of >
ParamodNameOffByOne(type, module_parameters) ==
    IF Len(module_parameters) >= ParamodThreshold
    THEN "$paramod$" \o sha1(module_parameters) \o type
    ELSE IF module_parameters /= ""
    THEN "$paramod" \o type \o module_parameters
    ELSE type

\* "rename module in same way yosys do"
ParamodName(type, module_parameters) ==
    IF Len(module_parameters) > ParamodThreshold
    THEN "$paramod$" \o sha1(module_parameters) \o type
    ELSE IF module_parameters /= ""
    THEN "$paramod" \o type \o module_parameters
    ELSE type

\* mutant: the clone is made without regard to the registry lookup
NeedCloneNoLookup(found, module_parameters) == module_parameters /= ""

\* mutant: the generic definition is specialized in place, never cloned
NeedCloneNever(found, module_parameters) == FALSE

\* the generic definition is cloned when the lookup under the specialized name
\* found nothing and the instantiation carries parameters
NeedClone(found, module_parameters) == ~found /\ module_parameters /= ""

(***************************************************************************)
(* Module entities: [str, attributes, children]; an attribute that is      *)
(* absent has the value 0.                                                 *)
(***************************************************************************)
NewModule(name, partial) ==
    [str |-> name,
     attributes |-> [partial |-> partial, keep |-> 0, whitebox |-> 0],
     children |-> << >>]

\* the second walk over vpiParamAssign: apply each assignment to module_node
\* or leave it on the cell as an AST_PARASET.  Returns the module's children
\* and the cell's AST_PARASET children.
RECURSIVE ApplyParams(_, _, _, _, _)
ApplyParams(children, parasets, pa, cell_instance, partial) ==
    IF pa = << >> THEN [children |-> children, parasets |-> parasets]
    ELSE
    LET node == Head(pa)
        IsParent == {j \in DOMAIN children :
                        /\ children[j].type \in {"AST_PARAMETER", "AST_LOCALPARAM"}
                        /\ children[j].str = node.str}
        i == FirstIndex(IsParent)
        paraset == [node EXCEPT !.type = "AST_PARASET"]
    IN
    IF i /= 0
    THEN IF children[i].type = "AST_PARAMETER"
         THEN IF cell_instance /= 0 \/ node.kids[1].type /= "AST_CONSTANT"
              THEN \* left to yosys: an AST_PARASET only where the value differs
                   IF node.kids[1].integer /= children[i].kids[1].integer
                      \/ node.kids[1].str /= children[i].kids[1].str
                   THEN ApplyParams(children, Append(parasets, paraset), Tail(pa),
                                    cell_instance, partial)
                   ELSE ApplyParams(children, parasets, Tail(pa), cell_instance, partial)
              ELSE ApplyParams(add_or_replace_child(children, node), parasets, Tail(pa),
                               cell_instance, partial)
         ELSE ApplyParams(add_or_replace_child(children, node), parasets, Tail(pa),
                          cell_instance, partial)
    ELSE IF partial = 2
    THEN ApplyParams(children, Append(parasets, paraset), Tail(pa), cell_instance, partial)
    ELSE ApplyParams(children, parasets, Tail(pa), cell_instance, partial)

\* mutant: only the marker value 1 is removed when the definition arrives
ErasePartialOnlyOne(attributes) ==
    IF attributes.partial = 1 THEN [attributes EXCEPT !.partial = 0] ELSE attributes

\* the definition branch erases the partial attribute, whatever its value
ErasePartial(attributes) == [attributes EXCEPT !.partial = 0]

\* the marker left on an instantiated entity as it was
InstancePartialKept(partial) == partial

\* the instance branch erases the partial attribute only if its value is 1
InstancePartial(partial) == IF partial = 1 THEN 0 ELSE partial

\* a test that takes every entity for complete
KeptInDesignAlways(n) == TRUE

\* get_bool_attribute(ID::partial) is false: process_design keeps the entity
KeptInDesign(n) == n.attributes.partial = 0

(***************************************************************************)
(* process_module, definition branch (type = name).                        *)
(***************************************************************************)
DefVisit(T) ==
    /\ visits < MaxVisits
    /\ visits' = visits + 1
    /\ cells' = cells
    /\ IF T \in DOMAIN top_nodes
       THEN \* the entity exists (a placeholder or an earlier visit): fill it in
            LET id == top_nodes[T]
                n == nodes[id]
            IN /\ nodes' = [nodes EXCEPT ![id] =
                     [n EXCEPT !.children = add_children(n.children, DefChildren(T)),
                               !.attributes = ErasePartial(n.attributes)]]
               /\ top_nodes' = top_nodes
               /\ filled' = IF n.attributes.partial = 2 /\ T \notin DOMAIN filled
                            THEN filled @@ (T :> id) ELSE filled
       ELSE \* first sight of the type: a new module, marked partial
            LET id == Len(nodes) + 1
                n == NewModule(T, 1)
            IN /\ nodes' = Append(nodes,
                     [n EXCEPT !.children = add_children(<< >>, DefChildren(T))])
               /\ top_nodes' = top_nodes @@ (T :> id)
               /\ filled' = filled

(***************************************************************************)
(* process_module, instance branch (type /= name).                         *)
(***************************************************************************)
InstVisit(inst) ==
    LET type == inst.type
        registered == type \in DOMAIN top_nodes
        module_parameters == SerializeParams(inst.pa, registered)
        module_name == ParamodName(type, module_parameters)
        found == module_name \in DOMAIN top_nodes
        clone == NeedClone(found, module_parameters)
        placeholder == ~found /\ ~registered
        \* vpiCellInstance, forced to 1 for a placeholder
        cell_instance == IF placeholder THEN 1 ELSE inst.cell_instance
        \* the node the lookups deliver, before any clone
        base == IF found THEN nodes[top_nodes[module_name]]
                ELSE IF registered THEN nodes[top_nodes[type]]
                ELSE NewModule(type, 2)
        id == IF clone \/ placeholder THEN Len(nodes) + 1
              ELSE IF found THEN top_nodes[module_name]
              ELSE top_nodes[type]
        applied == ApplyParams(base.children, << >>, inst.pa, cell_instance,
                               base.attributes.partial)
        module_node ==
            [str |-> IF placeholder THEN type ELSE module_name,
             attributes |->
                [partial |-> InstancePartial(base.attributes.partial),
                 keep |-> 1,
                 whitebox |-> IF cell_instance /= 0 THEN 1 ELSE base.attributes.whitebox],
             children |-> add_children(applied.children, InstChildren)]
        cell == [type |-> type, pa |-> inst.pa,
                 module_parameters |-> module_parameters,
                 registered |-> registered,
                 generic_defined |-> registered /\ nodes[top_nodes[type]].attributes.partial /= 2,
                 found |-> found,
                 celltype |-> module_node.str, entity |-> id,
                 parasets |-> applied.parasets]
    IN
    /\ visits < MaxVisits
    /\ visits' = visits + 1
    /\ nodes' = IF id = Len(nodes) + 1 THEN Append(nodes, module_node)
                ELSE [nodes EXCEPT ![id] = module_node]
    /\ top_nodes' = IF module_node.str \in DOMAIN top_nodes
                    THEN [top_nodes EXCEPT ![module_node.str] = id]
                    ELSE top_nodes @@ (module_node.str :> id)
    /\ cells' = Append(cells, cell)
    /\ filled' = filled

(***************************************************************************)
(* Range flattening.                                                       *)
(*                                                                         *)
(* A range node is [type, str, left, right]: left and right are the two    *)
(* constant children of an AST_RANGE.  A declaration node is                                       *)
(*   [type, str, is_input, is_output, attributes, multirange_dimensions,   *)
(*    multirange_swapped, children]                                        *)
(* with attributes [has_ranges, packed_ranges, unpacked_ranges, wiretype,  *)
(* id2ast, force_convert]: has_ranges says that ID::packed_ranges and      *)
(* ID::unpacked_ranges are present, id2ast names the typedef whose child   *)
(* attributes[ID::wiretype]->id2ast points to ("" for a null pointer),     *)
(* force_convert is -1 when absent.                                        *)
(***************************************************************************)
Reverse(s) == [i \in 1..Len(s) |-> s[Len(s) + 1 - i]]

Min(a, b) == IF a < b THEN a ELSE b

Max(a, b) == IF a < b THEN b ELSE a

make_range(left, right) ==
    [type |-> "AST_RANGE", str |-> "", left |-> left, right |-> right]

\* the width of a range: max - min + 1
Width(r) == Max(r.left, r.right) - Min(r.left, r.right) + 1

\* AstNode::simplify of an AST_RANGE marks a range whose right bound is the
\* larger one as swapped
range_swapped(r) == r.right > r.left

\* add_multirange_wire that stores both lists as they were declared
add_multirange_wire_as_declared(node, packed_ranges, unpacked_ranges, reverse) ==
    [node EXCEPT !.attributes.has_ranges = TRUE,
                 !.attributes.packed_ranges = packed_ranges,
                 !.attributes.unpacked_ranges = unpacked_ranges]

\* add_multirange_wire: both lists are stored reversed
add_multirange_wire(node, packed_ranges, unpacked_ranges, reverse) ==
    [node EXCEPT !.attributes.has_ranges = TRUE,
                 !.attributes.packed_ranges =
                     IF reverse THEN Reverse(packed_ranges) ELSE packed_ranges,
                 !.attributes.unpacked_ranges =
                     IF reverse THEN Reverse(unpacked_ranges) ELSE unpacked_ranges]

\* add_multirange_attribute: appends (min, width) and the swapped flag of each
\* range to the declaration and returns it with the product of the widths
RECURSIVE add_multirange_attribute(_, _, _)
add_multirange_attribute(wire_node, ranges, size) ==
    IF ranges = << >> THEN [wire |-> wire_node, size |-> size]
    ELSE LET r == Head(ranges)
             lo == Min(r.left, r.right)
             width == Width(r)
         IN add_multirange_attribute(
                [wire_node EXCEPT
                    !.multirange_dimensions = @ \o <<lo, width>>,
                    !.multirange_swapped = Append(@, range_swapped(r))],
                Tail(ranges), size * width)

\* resolve_wiretype: AstNode::simplify replaces the AST_WIRETYPE child by the
\* range of the typedef and sets ID::wiretype; the range then joins the
\* packed ranges
resolve_wiretype(wire_node) ==
    LET packed_ranges == IF wire_node.attributes.has_ranges
                         THEN wire_node.attributes.packed_ranges ELSE << >>
        unpacked_ranges == IF wire_node.attributes.has_ranges
                           THEN wire_node.attributes.unpacked_ranges ELSE << >>
        simplified == [wire_node EXCEPT
                          !.children = <<wire_node.children[1].template>> \o Tail(@),
                          !.attributes.wiretype = TRUE,
                          !.attributes.id2ast = wire_node.children[1].str]
    IN IF simplified.children[1].type = "AST_RANGE"
          /\ simplified.multirange_dimensions = << >>
       THEN [simplified EXCEPT
                !.children = << >>,
                !.attributes.has_ranges = TRUE,
                !.attributes.packed_ranges =
                    Reverse(Append(packed_ranges, simplified.children[1])),
                !.attributes.unpacked_ranges = unpacked_ranges]
       ELSE simplified

\* the decision to flatten without the clause for ports
convert_node_no_ports(wire_node, packed_ranges, unpacked_ranges) ==
    \/ Len(packed_ranges) > 1
    \/ Len(unpacked_ranges) > 1
    \/ wire_node.attributes.wiretype
    \/ wire_node.type = "AST_PARAMETER"
    \/ wire_node.type = "AST_LOCALPARAM"
    \/ wire_node.attributes.force_convert = 1

\* the decision to flatten
convert_node(wire_node, packed_ranges, unpacked_ranges) ==
    \/ Len(packed_ranges) > 1
    \/ Len(unpacked_ranges) > 1
    \/ wire_node.attributes.wiretype
    \/ wire_node.type = "AST_PARAMETER"
    \/ wire_node.type = "AST_LOCALPARAM"
    \/ ((wire_node.is_input \/ wire_node.is_output)
        /\ (Len(packed_ranges) > 0 \/ Len(unpacked_ranges) > 0))
    \/ wire_node.attributes.force_convert = 1

convert_packed_unpacked_range(wire_node) ==
    LET w1 == IF wire_node.children /= << >>
                 /\ wire_node.children[1].type = "AST_WIRETYPE"
              THEN resolve_wiretype(wire_node) ELSE wire_node
        packed_ranges == IF w1.attributes.has_ranges
                         THEN w1.attributes.packed_ranges ELSE << >>
        unpacked_ranges == IF w1.attributes.has_ranges
                           THEN w1.attributes.unpacked_ranges ELSE << >>
    IN
    IF packed_ranges = << >> /\ unpacked_ranges = << >>
    THEN [w1 EXCEPT !.attributes.has_ranges = FALSE,
                    !.attributes.packed_ranges = << >>,
                    !.attributes.unpacked_ranges = << >>]
    ELSE IF convert_node(w1, packed_ranges, unpacked_ranges)
    THEN IF w1.multirange_dimensions = << >>
         THEN LET p == add_multirange_attribute(w1, packed_ranges, 1)
                  u == add_multirange_attribute(p.wire, unpacked_ranges, 1)
                  size == p.size * u.size
              IN [u.wire EXCEPT !.children = Append(@, make_range(size - 1, 0))]
         ELSE w1
    ELSE \* the declared ranges become children; one packed and one unpacked
         \* range of a wire that is no port make it a memory
         [w1 EXCEPT
             !.children = @ \o packed_ranges \o unpacked_ranges,
             !.type = IF w1.type = "AST_WIRE" /\ Len(packed_ranges) = 1
                         /\ Len(unpacked_ranges) = 1
                         /\ ~w1.is_input /\ ~w1.is_output
                      THEN "AST_MEMORY" ELSE @]

(***************************************************************************)
(* Access rewriting.  A selector is an AST_RANGE with one child (a bit      *)
(* select) or two (a part select); the children are constants and the      *)
(* arithmetic nodes convert_range builds over them are given by value.     *)
(***************************************************************************)
\* range_left and range_right keep the values the AstNode constructor gives
\* them: nothing has simplified the selector yet
Selector(children) ==
    [type |-> "AST_RANGE", children |-> children, range_left |-> -1,
     range_right |-> 0]

\* the element sizes convert_range derives from the dimension table:
\* <<1, e1, e1*e2, ...>> over the table's entries, then reversed
RECURSIVE elem_sizes(_, _, _)
elem_sizes(dims, j, elem_size) ==
    IF j + 1 > Len(dims) THEN << >>
    ELSE LET e == elem_size * (dims[j + 1] - dims[j])
         IN <<e>> \o elem_sizes(dims, j + 2, e)

single_elem_size(wire_node) ==
    Reverse(<<1>> \o elem_sizes(wire_node.multirange_dimensions, 1, 1))

\* the log_asserts of convert_range that a call chain from selector 0 meets
\* the log_asserts of convert_range without the one on the dimension table
convert_range_asserts_no_table(id, wire_node, packed_ranges, unpacked_ranges) ==
    /\ Len(id.children) <= Len(unpacked_ranges) + Len(packed_ranges)
    /\ id.children /= << >>

\* log_assert(AST_INTERNAL::current_scope.count(id->str))
convert_range_in_scope(id, scope) == id.str \in DOMAIN scope

convert_range_asserts(id, wire_node, packed_ranges, unpacked_ranges) ==
    /\ wire_node.multirange_dimensions /= << >>
    /\ Len(id.children) <= Len(unpacked_ranges) + Len(packed_ranges)
    /\ id.children /= << >>

\* convert_range(id, packed_ranges, unpacked_ranges, i); wire_node is
\* current_scope[id->str] and i counts from 0 as in the source
RECURSIVE convert_range(_, _, _)
convert_range(id, wire_node, i) ==
    LET dims == wire_node.multirange_dimensions
        ses == single_elem_size(wire_node)
        sel == id.children[i + 1].children
        sel_left == sel[1]
        sel_right == IF Len(sel) = 2 THEN sel[2] ELSE sel[1]
        is_swapped == wire_node.multirange_swapped[Len(wire_node.multirange_swapped) - i]
        swap_size == dims[Len(dims) - (i * 2)] - dims[Len(dims) - (i * 2) - 1]
        l0 == IF is_swapped THEN swap_size - 1 - sel_left ELSE sel_left
        r0 == IF is_swapped THEN swap_size - 1 - sel_right ELSE sel_right
        l1 == (l0 + 1) * ses[i + 2] - 1
        r1 == r0 * ses[i + 2]
    IN IF Len(id.children) = 0 /\ i = 0
       THEN \* "select whole wire"; the log_assert on id->children stands
            \* before this branch
            make_range(ses[i + 1] - 1, 0)
       ELSE IF i < Len(id.children) - 1
       THEN LET result == convert_range(id, wire_node, i + 1)
                r2 == r1 + result.right
                l2 == r2 + result.left - result.right
            IN make_range(l2, r2)
       ELSE make_range(l1, r1)

(***************************************************************************)
(* Structs.  A struct node is [type, str, range_left, range_right,         *)
(* children]; a member is an AST_STRUCT_ITEM of the same shape whose child *)
(* is its declared range (none for a one-bit member), or a nested          *)
(* AST_STRUCT.  range_left = -1 and range_right = 0 until the members are  *)
(* laid out.                                                               *)
(***************************************************************************)
StructItem(str, width) ==
    [type |-> "AST_STRUCT_ITEM", str |-> str, range_left |-> -1, range_right |-> 0,
     children |-> IF width = 1 THEN << >> ELSE <<make_range(width - 1, 0)>>]

Struct(str, children) ==
    [type |-> "AST_STRUCT", str |-> str, range_left |-> -1, range_right |-> 0,
     children |-> children]

\* The layout AstNode::simplify gives a packed struct: the members are placed
\* from the last one to the first one at growing offsets, so that the first
\* member is the most significant one (see get_max_offset); a nested struct
\* node keeps range_left = -1.
RECURSIVE size_packed_struct(_, _)
RECURSIVE layout_members(_, _, _, _)
layout_members(children, k, base_offset, offset) ==
    IF k = 0 THEN [children |-> children, width |-> offset]
    ELSE LET node == children[k]
         IN IF node.type = "AST_STRUCT"
            THEN LET sub == size_packed_struct(node, base_offset + offset)
                 IN layout_members([children EXCEPT ![k] = sub.node], k - 1,
                                   base_offset, offset + sub.width)
            ELSE LET width == IF node.children /= << >>
                              THEN Width(node.children[1])
                              ELSE IF node.range_left < 0 THEN 1
                              ELSE node.range_left - node.range_right + 1
                 IN layout_members(
                        [children EXCEPT ![k] =
                            [node EXCEPT !.range_right = base_offset + offset,
                                         !.range_left = base_offset + offset + width - 1]],
                        k - 1, base_offset, offset + width)

size_packed_struct(snode, base_offset) ==
    LET r == layout_members(snode.children, Len(snode.children), base_offset, 0)
    IN [node |-> [snode EXCEPT !.children = r.children], width |-> r.width]

RECURSIVE get_max_offset(_)
get_max_offset(node) ==
    IF node.range_left < 0 THEN get_max_offset(node.children[1])
    ELSE node.range_left

\* the names of struct members and of package items, and str.substr(1) of a
\* name that starts with a backslash
MemberNames ==
    <<"a", "b", "c", "d", "e", "p", "q", "z", "WP", "LP", "t_t", "u_t", "E">>

substr1(str) ==
    IF \E i \in DOMAIN MemberNames : str = "\\" \o MemberNames[i]
    THEN MemberNames[CHOOSE i \in DOMAIN MemberNames : str = "\\" \o MemberNames[i]]
    ELSE str

Dot(str, children) == [type |-> "AST_DOT", str |-> str, children |-> children]

\* what log_error leaves in place of a result
LogError == [type |-> "LOG_ERROR", str |-> "", left |-> 0, right |-> 0]

\* expand_dot with every member range replaced by [width - 1 : 0]
expand_dot_from_zero(current_struct, search_node) ==
    LET found == {i \in DOMAIN current_struct.children :
                      current_struct.children[i].str = substr1(search_node.str)}
    IN IF found = {} THEN LogError
       ELSE LET elem == current_struct.children[FirstIndex(found)]
            IN make_range(elem.range_left - elem.range_right, 0)

\* expand_dot that does not follow the path into a nested struct
RECURSIVE expand_dot_no_descent(_, _)
expand_dot_no_descent(current_struct, search_node) ==
    LET found == {i \in DOMAIN current_struct.children :
                      current_struct.children[i].str = substr1(search_node.str)}
        elem == current_struct.children[FirstIndex(found)]
    IN IF found = {} THEN LogError
       ELSE IF elem.type = "AST_STRUCT_ITEM"
       THEN make_range(elem.range_left, elem.range_right)
       ELSE make_range(elem.children[1].range_left,
                       elem.children[Len(elem.children)].range_right)

\* expand_dot(current_struct, search_node): the range of the member the path
\* names, counted from the beginning of the outermost struct
RECURSIVE expand_dot(_, _)
expand_dot(current_struct, search_node) ==
    LET search_str == substr1(search_node.str)
        found == {i \in DOMAIN current_struct.children :
                      current_struct.children[i].str = search_str}
        elem == current_struct.children[FirstIndex(found)]
        left0 == IF elem.type = "AST_STRUCT_ITEM" THEN elem.range_left
                 ELSE elem.children[1].range_left
        right0 == IF elem.type = "AST_STRUCT_ITEM" THEN elem.range_right
                  ELSE elem.children[Len(elem.children)].range_right
        elem_size == left0 - right0 + 1
        dots == {i \in DOMAIN search_node.children :
                     search_node.children[i].type = "AST_DOT"}
        ranges == {i \in DOMAIN search_node.children :
                       search_node.children[i].type = "AST_RANGE"}
        sub_dot == expand_dot(elem, search_node.children[FirstIndex(dots)])
        left1 == IF dots /= {} THEN sub_dot.left ELSE left0
        right1 == IF dots /= {} THEN sub_dot.right ELSE right0
        sr == search_node.children[FirstIndex(ranges)].children
        range_size == sr[1] - sr[2] + 1
    IN IF found = {} THEN LogError
       ELSE IF Cardinality(dots) > 1 \/ Cardinality(ranges) > 1 THEN LogError
       ELSE IF dots /= {} /\ sub_dot.type = "LOG_ERROR" THEN LogError
       ELSE IF ranges = {} THEN make_range(left1, right1)
       ELSE IF sr = << >> THEN LogError
       ELSE IF elem.type = "AST_STRUCT_ITEM"
       THEN IF Len(sr) = 2
            THEN make_range(left1 + (sr[2] + (range_size - elem_size)), right1 + sr[2])
            ELSE IF Len(sr) = 1
            THEN make_range(right1 + sr[1], right1 + sr[1])
            ELSE LogError
       ELSE \* a nested struct; the children of a selector are constants
            IF Len(sr) = 2
               /\ search_node.children[FirstIndex(ranges)].range_left
                      /= search_node.children[FirstIndex(ranges)].range_right
            THEN make_range(left1 + (range_size - elem_size), right1 + sr[2])
            ELSE IF Len(sr) = 1
            THEN make_range(left1 + elem_size * sr[1], right1 + elem_size * sr[1])
            ELSE LogError

\* convert_dot without the term for the indexed element
convert_dot_no_term(wire_node, struct_of, node, dot) == expand_dot(struct_of, dot)

\* convert_dot(wire_node, node, dot); struct_of is the struct that wire_node
\* is, or that its wiretype attribute points to
convert_dot(wire_node, struct_of, node, dot) ==
    LET has_struct == \/ wire_node.type = "AST_STRUCT"
                      \/ (wire_node.attributes.wiretype
                          /\ wire_node.attributes.id2ast /= "")
        expanded == expand_dot(struct_of, dot)
        struct_size_int == get_max_offset(struct_of) + 1
        dims == wire_node.multirange_dimensions
        unpacked_range == dims[Len(dims)] - 1
        term == struct_size_int * (unpacked_range - node.children[1].children[1])
    IN IF ~has_struct THEN LogError
       ELSE IF expanded.type = "LOG_ERROR" THEN LogError
       ELSE IF node.children[1].type = "AST_RANGE"
       THEN IF dims = << >> THEN LogError
            ELSE make_range(expanded.left + term, expanded.right + term)
       ELSE expanded

(***************************************************************************)
(* The declarations the flattening is checked on.                          *)
(***************************************************************************)
\* the ranges a dimension may be declared with: widths 4 and 2, lower bounds
\* 0 and 1, descending and ascending
RangeSet ==
    { make_range(3, 0), make_range(1, 0), make_range(2, 1), make_range(0, 3),
      make_range(1, 2) }

RECURSIVE SeqsOf(_, _)
SeqsOf(S, n) ==
    IF n = 0 THEN { << >> }
    ELSE {Append(q, e) : q \in SeqsOf(S, n - 1), e \in S}

\* the declared range lists: [packed, unpacked], at most MaxDims in all
DeclaredRanges ==
    UNION { [packed : SeqsOf(RangeSet, np), unpacked : SeqsOf(RangeSet, nu)] :
            np \in 0..MaxDims, nu \in 0..MaxDims }

BoundedDeclaredRanges ==
    {d \in DeclaredRanges : Len(d.packed) + Len(d.unpacked) <= MaxDims}

\* the range a typedef gives to a declaration of its type
TypedefRange == make_range(7, 0)

\* a declaration as the walker builds it: the declared ranges go through
\* add_multirange_wire
Declaration(k, d) ==
    add_multirange_wire(
        [type |-> k.type, str |-> "\\x", is_input |-> k.is_input,
         is_output |-> k.is_output,
         attributes |-> [has_ranges |-> FALSE, packed_ranges |-> << >>,
                         unpacked_ranges |-> << >>, wiretype |-> k.wiretype,
                         id2ast |-> "", force_convert |-> k.force_convert],
         multirange_dimensions |-> << >>, multirange_swapped |-> << >>,
         children |-> IF k.typed
                      THEN << [type |-> "AST_WIRETYPE", str |-> "\\t_t",
                               template |-> TypedefRange] >>
                      ELSE << >>],
        d.packed, d.unpacked, TRUE)

DeclKind(type, is_input, is_output, wiretype, force_convert, typed) ==
    [type |-> type, is_input |-> is_input, is_output |-> is_output,
     wiretype |-> wiretype, force_convert |-> force_convert, typed |-> typed]

\* wires in every combination of port direction, named type (none, a
\* struct type already attached, a typedef still to resolve) and
\* force_convert; parameters and local parameters
DeclKinds ==
    { DeclKind("AST_WIRE", io[1], io[2], wt[1], fc, wt[2]) :
        io \in {<<FALSE, FALSE>>, <<TRUE, FALSE>>, <<FALSE, TRUE>>},
        wt \in {<<FALSE, FALSE>>, <<TRUE, FALSE>>, <<FALSE, TRUE>>},
        fc \in {-1, 0, 1} }
    \cup
    { DeclKind(t, FALSE, FALSE, FALSE, -1, FALSE) :
        t \in {"AST_PARAMETER", "AST_LOCALPARAM"} }

(***************************************************************************)
(* The registry specification.                                             *)
(***************************************************************************)
ModIdle ==
    /\ top_nodes = << >>
    /\ nodes = << >>
    /\ cells = << >>
    /\ visits = 0
    /\ filled = << >>

FlatIdle ==
    /\ wire = Node("AST_NONE", "")
    /\ declared = [packed |-> << >>, unpacked |-> << >>, selectors |-> << >>]
    /\ calls = 0
    /\ after_first = Node("AST_NONE", "")
    /\ current_scope = << >>
    /\ ident = Node("AST_NONE", "")
    /\ struct_node = Node("AST_NONE", "")
    /\ visited = {}
    /\ aborted = FALSE

DesIdle ==
    /\ pc = "idle"
    /\ order = << >>
    /\ pos = 0
    /\ child_i = 0
    /\ current_ast_mod = ""
    /\ design = << >>
    /\ designs_seen = 0
    /\ root = << >>
    /\ simplify_calls = << >>

ObjIdle ==
    /\ objects = << >>
    /\ obj_i = 0
    /\ lowered = << >>
    /\ handled = {}
    /\ warnings = 0
    /\ port_id = 0
    /\ stop_on_error = FALSE
    /\ errored = FALSE

ProcIdle ==
    /\ mod_children = << >>
    /\ inserted = 0
    /\ stream = Node("AST_NONE", "")
    /\ loop_pc = "idle"
    /\ loop_i = 0
    /\ iterations = << >>

Init == ModIdle /\ FlatIdle /\ DesIdle /\ ObjIdle /\ ProcIdle

Next ==
    \/ \E T \in Types : DefVisit(T) /\ UNCHANGED <<flatVars, desVars, procVars, objVars>>
    \/ \E inst \in Instantiations : InstVisit(inst) /\ UNCHANGED <<flatVars, desVars, procVars, objVars>>

Spec == Init /\ [][Next]_vars

(***************************************************************************)
(* SpecFlatten: convert_packed_unpacked_range applied to one declaration,  *)
(* MaxCalls times.  The scope holds the typedef a typed declaration names. *)
(***************************************************************************)
InitFlatten ==
    /\ ModIdle
    /\ DesIdle
    /\ ObjIdle
    /\ ProcIdle
    /\ \E d \in BoundedDeclaredRanges, k \in DeclKinds :
           \* check_memories gives force_convert to memories only
           /\ k.force_convert /= -1 => (Len(d.packed) = 1 /\ Len(d.unpacked) = 1)
           /\ declared = [packed |-> d.packed, unpacked |-> d.unpacked,
                          selectors |-> << >>]
           /\ wire = Declaration(k, d)
    /\ calls = 0
    /\ after_first = Node("AST_NONE", "")
    /\ current_scope = ("\\t_t" :> [unit |-> "\\top", type |-> "AST_TYPEDEF"])
    /\ ident = Node("AST_NONE", "")
    /\ struct_node = Node("AST_NONE", "")
    /\ visited = {}
    /\ aborted = FALSE

ConvertCall ==
    /\ calls < MaxCalls
    /\ calls' = calls + 1
    /\ wire' = convert_packed_unpacked_range(wire)
    /\ after_first' = IF calls = 0 THEN wire' ELSE after_first
    /\ UNCHANGED <<declared, current_scope, ident, struct_node, visited, aborted>>

NextFlatten == ConvertCall /\ UNCHANGED <<modVars, desVars, procVars, objVars>>

SpecFlatten == InitFlatten /\ [][NextFlatten]_vars

(***************************************************************************)
(* SpecAccess: simplify() walks a unit that holds one declaration and one  *)
(* access to it; the two nodes may come in either order.                   *)
(***************************************************************************)
\* declarations that reach convert_range: a plain wire, an input port and a
\* parameter
AccessKinds ==
    { DeclKind("AST_WIRE", FALSE, FALSE, FALSE, -1, FALSE),
      DeclKind("AST_WIRE", TRUE, FALSE, FALSE, -1, FALSE),
      DeclKind("AST_PARAMETER", FALSE, FALSE, FALSE, -1, FALSE) }

\* bit selects 0..2 and the part select [1:0]
Selectors == { Selector(<<0>>), Selector(<<1>>), Selector(<<2>>), Selector(<<1, 0>>) }

\* up to MaxDims selectors, and bit selects 0 and 1 one more than MaxDims
\* times: more selectors than any declaration has dimensions
SelectorLists ==
    UNION { SeqsOf(Selectors, k) : k \in 0..MaxDims }
    \cup SeqsOf({ Selector(<<0>>), Selector(<<1>>) }, MaxDims + 1)

Identifier(str, children) ==
    [type |-> "AST_IDENTIFIER", str |-> str, children |-> children,
     basic_prep |-> FALSE]

InitAccess ==
    /\ ModIdle
    /\ DesIdle
    /\ ObjIdle
    /\ ProcIdle
    /\ \E d \in BoundedDeclaredRanges, k \in AccessKinds, sl \in SelectorLists :
           /\ declared = [packed |-> d.packed, unpacked |-> d.unpacked,
                          selectors |-> sl]
           /\ wire = Declaration(k, d)
           /\ ident = Identifier("\\x", sl)
    /\ calls = 0
    /\ after_first = Node("AST_NONE", "")
    /\ current_scope = << >>
    /\ struct_node = Node("AST_NONE", "")
    /\ visited = {}
    /\ aborted = FALSE

\* simplify(), the AST_WIRE / AST_PARAMETER / AST_LOCALPARAM arm.  Resolving
\* a named type needs the typedef in the scope and lays out its struct.
SimplifyDeclaration ==
    /\ ~aborted
    /\ "declaration" \notin visited
    /\ visited' = visited \cup {"declaration"}
    /\ current_scope' =
           (wire.str :> [unit |-> "\\top", type |-> wire.type]) @@ current_scope
    /\ LET typed == wire.children /= << >> /\ wire.children[1].type = "AST_WIRETYPE"
       IN IF typed /\ wire.children[1].str \notin DOMAIN current_scope
          THEN /\ aborted' = TRUE
               /\ UNCHANGED <<wire, calls, struct_node>>
          ELSE /\ wire' = convert_packed_unpacked_range(wire)
               /\ calls' = calls + 1
               /\ struct_node' = IF typed /\ struct_node.type = "AST_STRUCT"
                                 THEN size_packed_struct(struct_node, 0).node
                                 ELSE struct_node
               /\ UNCHANGED aborted
    /\ UNCHANGED <<declared, after_first, ident>>

\* the AST_IDENTIFIER arm without the test for selectors
rewrites_access_any(id, wire_node, scope, total) ==
    /\ ~id.basic_prep
    /\ id.str \in DOMAIN scope
    /\ wire_node.type \in {"AST_WIRE", "AST_PARAMETER", "AST_LOCALPARAM"}
    /\ total /= 0
    /\ total /= 1

\* the AST_IDENTIFIER arm calls convert_range: the identifier has selectors
\* and is not prepared yet, its name is in the scope, the declaration is a
\* wire, parameter or localparam with two ranges or more
rewrites_access(id, wire_node, scope, total) ==
    /\ id.children /= << >>
    /\ ~id.basic_prep
    /\ id.str \in DOMAIN scope
    /\ wire_node.type \in {"AST_WIRE", "AST_PARAMETER", "AST_LOCALPARAM"}
    /\ total /= 0
    /\ total /= 1

\* simplify() of an AST_IDENTIFIER: the dotted path first, then the
\* AST_IDENTIFIER arm
SimplifyIdentifier ==
    /\ ~aborted
    /\ "identifier" \notin visited
    /\ visited' = visited \cup {"identifier"}
    /\ LET dots == {i \in DOMAIN ident.children : ident.children[i].type = "AST_DOT"}
           dot == ident.children[FirstIndex(dots)]
           in_scope == ident.str \in DOMAIN current_scope
           expanded == convert_dot(wire, struct_node, ident, dot)
           \* lines 514-537
           dotted == IF dots = {} THEN ident
                     ELSE IF ~in_scope
                     THEN [ident EXCEPT !.str = @ \o "." \o substr1(dot.str),
                                        !.children = << >>]
                     ELSE [ident EXCEPT !.children = <<expanded>>,
                                        !.basic_prep = TRUE]
           packed_ranges == IF wire.attributes.has_ranges
                            THEN wire.attributes.packed_ranges ELSE << >>
           unpacked_ranges == IF wire.attributes.has_ranges
                              THEN wire.attributes.unpacked_ranges ELSE << >>
           total == Len(packed_ranges) + Len(unpacked_ranges)
       IN IF dots /= {} /\ in_scope /\ expanded.type = "LOG_ERROR"
          THEN /\ aborted' = TRUE
               /\ UNCHANGED ident
          ELSE IF rewrites_access(dotted, wire, current_scope, total)
          THEN IF convert_range_asserts(dotted, wire, packed_ranges, unpacked_ranges)
               THEN /\ ident' = [dotted EXCEPT
                                    !.children = <<convert_range(dotted, wire, 0)>>,
                                    !.basic_prep = TRUE]
                    /\ UNCHANGED aborted
               ELSE /\ aborted' = TRUE
                    /\ UNCHANGED ident
          ELSE /\ ident' = dotted
               /\ UNCHANGED aborted
    /\ UNCHANGED <<wire, declared, calls, after_first, current_scope, struct_node>>

NextAccess ==
    \/ SimplifyDeclaration /\ UNCHANGED <<modVars, desVars, procVars, objVars>>
    \/ SimplifyIdentifier /\ UNCHANGED <<modVars, desVars, procVars, objVars>>

SpecAccess == InitAccess /\ [][NextAccess]_vars

(***************************************************************************)
(* SpecStruct: simplify() walks a unit that holds a typedef of a packed    *)
(* struct, a declaration of that type (possibly an unpacked array of it)   *)
(* and a dotted access to it.  The typedef comes first and is in the scope *)
(* already; the declaration and the access come in either order.           *)
(***************************************************************************)
\* what a member may be: a scalar of width 1, 4 or 8, or a nested struct
\* with the members p (4 bits) and q (1 bit)
MemberKinds == {1, 4, 8, 0}

Member(str, kind) ==
    IF kind = 0 THEN Struct(str, <<StructItem("p", 4), StructItem("q", 1)>>)
    ELSE StructItem(str, kind)

\* the structs: 1..MaxFields members named a, b, c, ... in this order
Structs ==
    { Struct("", [i \in DOMAIN kinds |-> Member(MemberNames[i], kinds[i])]) :
        kinds \in UNION { [1..n -> MemberKinds] : n \in 1..MaxFields } }

\* the dotted paths into a struct of n members: a member or the missing name
\* z, then nothing, a selector, or a path into a nested struct
DotPaths(n) ==
    { Dot("\\" \o name, rest) :
        name \in {MemberNames[i] : i \in 1..n} \cup {"z"},
        rest \in { << >>, <<Selector(<<0>>)>>, <<Selector(<<1>>)>>,
                   <<Selector(<<1, 0>>)>>, <<Dot("\\p", << >>)>>,
                   <<Dot("\\q", << >>)>> } }

\* a member that is a struct with a struct inside: as its last member
\* (kind -1) or as its first member (kind -2)
DeepMember(str, kind) ==
    LET inner == <<StructItem("d", 2), StructItem("e", 1)>>
    IN IF kind = -1
       THEN Struct(str, <<StructItem("p", 4), Struct("q", inner)>>)
       ELSE IF kind = -2
       THEN Struct(str, <<Struct("p", inner), StructItem("q", 1)>>)
       ELSE StructItem(str, kind)

\* the structs with one such member among scalar members
DeepStructs ==
    { Struct("", [i \in DOMAIN kinds |-> DeepMember(MemberNames[i], kinds[i])]) :
        kinds \in UNION { { k \in [1..n -> {1, 4, -1, -2}] :
                              Cardinality({i \in 1..n : k[i] < 0}) = 1 } :
                          n \in 1..MaxFields } }

\* the paths of field names into such a struct, one to three names long
DeepPaths(n) ==
    { Dot("\\" \o name, rest) :
        name \in {MemberNames[i] : i \in 1..n},
        rest \in { << >> } \cup
                 { <<Dot(f, sub)>> :
                     f \in {"\\p", "\\q"},
                     sub \in { << >>, <<Dot("\\d", << >>)>>, <<Dot("\\e", << >>)>> } } }

\* the selector an access to an array of structs starts with
LeadingSelectors == { << >>, <<Selector(<<0>>)>>, <<Selector(<<1>>)>> }

\* the unpacked dimensions of a struct-typed declaration: none or one
StructDimensions == { << >>, <<make_range(1, 0)>>, <<make_range(2, 1)>> }

\* the declaration: typed by the typedef, its range is the struct's
StructDeclaration(st, unpacked) ==
    [Declaration(DeclKind("AST_WIRE", FALSE, FALSE, FALSE, -1, TRUE),
                 [packed |-> << >>, unpacked |-> unpacked])
        EXCEPT !.children =
            << [type |-> "AST_WIRETYPE", str |-> "\\t_t",
                template |-> make_range(size_packed_struct(st, 0).width - 1, 0)] >>]

InitStruct ==
    /\ ModIdle
    /\ DesIdle
    /\ ObjIdle
    /\ ProcIdle
    /\ \E st \in Structs \cup DeepStructs, unpacked \in StructDimensions,
          lead \in LeadingSelectors :
       \E path \in IF st \in DeepStructs THEN DeepPaths(Len(st.children))
                   ELSE DotPaths(Len(st.children)) :
           /\ struct_node = st
           /\ declared = [packed |-> << >>, unpacked |-> unpacked,
                          selectors |-> lead \o <<path>>]
           /\ wire = StructDeclaration(st, unpacked)
           /\ ident = Identifier("\\x", lead \o <<path>>)
    /\ calls = 0
    /\ after_first = Node("AST_NONE", "")
    /\ current_scope = ("\\t_t" :> [unit |-> "\\top", type |-> "AST_TYPEDEF"])
    /\ visited = {}
    /\ aborted = FALSE

NextStruct ==
    \/ SimplifyDeclaration /\ UNCHANGED <<modVars, desVars, procVars, objVars>>
    \/ SimplifyIdentifier /\ UNCHANGED <<modVars, desVars, procVars, objVars>>

SpecStruct == InitStruct /\ [][NextStruct]_vars

(***************************************************************************)
(* SpecDesign: process_design after the walk has filled shared.top_nodes.  *)
(* A unit is [type, str, attributes, children]; its children are           *)
(* declarations (wire, parameter, localparam), typedefs, enums and         *)
(* identifiers.  A scope entry is [unit, type]: the unit that holds the    *)
(* node the entry points to, and the node's type.                          *)
(***************************************************************************)
Unit(type, str, partial, children) ==
    [type |-> type, str |-> str,
     attributes |-> [partial |-> partial, keep |-> 0, whitebox |-> 0],
     children |-> children]

UnitDecl(type, str, packed, unpacked) ==
    [Declaration(DeclKind(type, FALSE, FALSE, FALSE, -1, FALSE),
                 [packed |-> packed, unpacked |-> unpacked])
        EXCEPT !.str = str]

\* the AST_CELL process_module returns for an instance: its first child is
\* the AST_CELLTYPE that names the module entity
Cell(str, celltype) ==
    [type |-> "AST_CELL", str |-> str,
     children |-> << [type |-> "AST_CELLTYPE", str |-> celltype, children |-> << >>] >>]

Enum(str, items) ==
    [Node("AST_ENUM", str) EXCEPT
        !.kids = [i \in DOMAIN items |-> Node("AST_ENUM_ITEM", items[i])]]

\* the units designs are made of: two packages that both declare WP, two
\* modules that both declare WA, one of them with a memory that is used as
\* a whole, the other with an instance of C, an interface, a module C that
\* was only instantiated (partial = 2) and a module D whose definition was
\* visited once and that was never instantiated (partial = 1)
UnitPool ==
    { Unit("AST_PACKAGE", "\\P", 0,
           << Node("AST_TYPEDEF", "\\t_t"),
              UnitDecl("AST_PARAMETER", "\\WP", << >>, << >>),
              UnitDecl("AST_LOCALPARAM", "\\LP", << >>, << >>),
              Enum("\\E", <<"\\E0", "\\E1">>) >>),
      Unit("AST_PACKAGE", "\\Q", 0,
           << UnitDecl("AST_PARAMETER", "\\WP", << >>, << >>),
              Node("AST_TYPEDEF", "\\u_t") >>),
      Unit("AST_MODULE", "\\A", 0,
           << UnitDecl("AST_PARAMETER", "\\WA", << >>, << >>),
              UnitDecl("AST_WIRE", "\\a", <<make_range(3, 0)>>, << >>),
              UnitDecl("AST_WIRE", "\\m", <<make_range(3, 0)>>, <<make_range(1, 0)>>),
              Identifier("\\m", << >>) >>),
      Unit("AST_MODULE", "\\B", 0,
           << UnitDecl("AST_PARAMETER", "\\WA", << >>, << >>),
              UnitDecl("AST_WIRE", "\\b", << >>, << >>),
              Cell("\\u1", "\\C") >>),
      Unit("AST_INTERFACE", "\\I", 0,
           << UnitDecl("AST_WIRE", "\\i", << >>, << >>) >>),
      Unit("AST_MODULE", "\\C", 2, << >>),
      Unit("AST_MODULE", "\\D", 1,
           << UnitDecl("AST_WIRE", "\\d", << >>, << >>) >>) }

Injective(q) == \A i, j \in DOMAIN q : q[i] = q[j] => i = j

\* the designs: 1..MaxUnits units in the order the registry iterates them
Designs ==
    UNION { {q \in SeqsOf(UnitPool, n) : Injective(q)} : n \in 1..MaxUnits }

Entry(unit, type) == [unit |-> unit, type |-> type]

\* check_memories on the children of a unit: a wire with one packed and one
\* unpacked range is a memory; an identifier without selectors that names a
\* memory which has no force_convert attribute yet gives it force_convert = 1.
\* No unit of the model calls $readmemh.
\* the AST_TCALL process_sys_func_call makes of $readmemh(file, mem): its
\* second child is the identifier of the memory
Readmemh(mem) ==
    [type |-> "AST_TCALL", str |-> "\\$readmemh",
     children |-> << Node("AST_CONSTANT", "file"), Identifier(mem, << >>) >>]

\* the memories check_memories has registered before it visits children[k]
is_memory(node) ==
    /\ node.type = "AST_WIRE"
    /\ node.attributes.has_ranges
    /\ Len(node.attributes.packed_ranges) = 1
    /\ Len(node.attributes.unpacked_ranges) = 1

\* memories[children[1]->str] of a $readmemh call whose memory was not
\* registered yet is a null pointer: add_force_convert_attribute writes
\* through it, and if that store does not trap, the log_assert at the
\* declaration of the memory fails since the map now has the name.  Either
\* way the pass does not return.
check_memories_null(children) ==
    \E k \in DOMAIN children :
        /\ children[k].str = "\\$readmemh"
        /\ ~\E i \in 1..(k - 1) :
               is_memory(children[i]) /\ children[i].str = children[k].children[2].str

RECURSIVE check_memories(_, _, _)
check_memories(children, k, memories) ==
    IF k > Len(children) THEN children
    ELSE LET node == children[k]
             memories1 == IF is_memory(node) THEN memories \cup {k} ELSE memories
             named == {i \in memories1 : children[i].str = node.str}
             target == IF node.str = "\\$readmemh"
                       THEN {i \in memories1 : children[i].str = node.children[2].str}
                       ELSE {}
         IN IF target /= {}
            THEN \* the identifier below the call is visited next and finds
                 \* the attribute set
                 check_memories(
                     [children EXCEPT ![FirstIndex(target)].attributes.force_convert = 0],
                     k + 1, memories1)
            ELSE IF /\ node.type = "AST_IDENTIFIER"
                    /\ named /= {}
                    /\ children[FirstIndex(named)].attributes.force_convert = -1
                    /\ node.children = << >>
            THEN check_memories(
                     [children EXCEPT ![FirstIndex(named)].attributes.force_convert = 1],
                     k + 1, memories1)
            ELSE check_memories(children, k + 1, memories1)

RECURSIVE import_enum_items(_, _, _, _)
import_enum_items(scope, pkg, items, k) ==
    IF k > Len(items) THEN scope
    ELSE import_enum_items(
             (items[k].str :> Entry(pkg.str, items[k].type)) @@ scope,
             pkg, items, k + 1)

\* setup_current_scope, the children of one package
RECURSIVE import_package(_, _, _)
import_package(scope, pkg, k) ==
    IF k > Len(pkg.children) THEN scope
    ELSE LET o == pkg.children[k]
             e == Entry(pkg.str, o.type)
         IN IF o.type \in {"AST_TYPEDEF", "AST_PARAMETER", "AST_LOCALPARAM"}
            THEN import_package(
                     (o.str :> e) @@ ((pkg.str \o "::" \o substr1(o.str)) :> e) @@ scope,
                     pkg, k + 1)
            ELSE IF o.type = "AST_ENUM"
            THEN import_package(
                     import_enum_items((o.str :> e) @@ scope, pkg, o.kids, 1),
                     pkg, k + 1)
            ELSE import_package(scope, pkg, k + 1)

\* setup_current_scope(top_nodes, current_top_node): the scope after the loop
\* over top_nodes, given as the sequence of its nodes in iteration order
RECURSIVE setup_current_scope(_, _)
setup_current_scope(scope, top) ==
    IF top = << >> THEN scope
    ELSE setup_current_scope(
             IF Head(top).type = "AST_PACKAGE"
             THEN import_package(scope, Head(top), 1) ELSE scope,
             Tail(top))

\* clear_current_scope that leaves the entries in place
clear_current_scope_keep(scope) == scope

\* clear_current_scope: the scope it leaves
clear_current_scope(scope) == << >>

\* simplify(current_node, parent_node) of a child of a unit: the node and the
\* scope it leaves
simplify(unit, current_node, scope) ==
    IF current_node.type \in {"AST_TYPEDEF", "AST_ENUM"}
    THEN [node |-> current_node,
          scope |-> (current_node.str :> Entry(unit.str, current_node.type)) @@ scope]
    ELSE IF current_node.type \in {"AST_WIRE", "AST_PARAMETER", "AST_LOCALPARAM"}
    THEN [node |-> convert_packed_unpacked_range(current_node),
          scope |-> (current_node.str :> Entry(unit.str, current_node.type)) @@ scope]
    ELSE [node |-> current_node, scope |-> scope]

InitDesign ==
    /\ FlatIdle
    /\ ObjIdle
    /\ ProcIdle
    /\ cells = << >>
    /\ visits = 0
    /\ filled = << >>
    /\ \E d \in Designs :
           /\ nodes = d
           /\ order = [i \in DOMAIN d |-> d[i].str]
           /\ top_nodes = [n \in {d[i].str : i \in DOMAIN d} |->
                              CHOOSE i \in DOMAIN d : d[i].str = n]
    /\ pc = "packages"
    /\ pos = 1
    /\ child_i = 0
    /\ current_ast_mod = ""
    /\ design = << >>
    /\ designs_seen = 0
    /\ root = << >>
    /\ simplify_calls = << >>

\* the unit the loop is at
AtUnit == pc \in {"packages", "units"} /\ pos <= Len(order)

UnitAt == nodes[top_nodes[order[pos]]]

flatRest ==
    <<wire, declared, calls, after_first, ident, struct_node, visited, aborted>>

\* the first loop passes a unit that is no package
SkipUnit ==
    /\ AtUnit /\ pc = "packages" /\ child_i = 0
    /\ UnitAt.type /= "AST_PACKAGE"
    /\ pos' = pos + 1
    /\ UNCHANGED <<objVars, procVars, rootVars, modVars, flatVars, pc, order, child_i, current_ast_mod, design>>

\* check_memories and setup_current_scope: for a package in the first loop,
\* for any other unit that is not partial in the second loop.  The copy of
\* top_nodes that setup_current_scope iterates may come in any order.
BeginUnit ==
    /\ AtUnit /\ child_i = 0
    /\ IF pc = "packages" THEN UnitAt.type = "AST_PACKAGE"
       ELSE KeptInDesign(UnitAt) /\ UnitAt.type /= "AST_PACKAGE"
    /\ ~check_memories_null(UnitAt.children)
    /\ nodes' = [nodes EXCEPT ![top_nodes[order[pos]]].children =
                                  check_memories(@, 1, {})]
    /\ \E top \in {q \in SeqsOf(Range(nodes), Len(nodes)) : Injective(q)} :
           current_scope' = setup_current_scope(current_scope, top)
    /\ current_ast_mod' = UnitAt.str
    /\ child_i' = 1
    /\ simplify_calls' = Append(simplify_calls, UnitAt.str)
    /\ UNCHANGED <<objVars, procVars, designs_seen, root, top_nodes, cells, visits, filled, flatRest, pc, order, pos, design>>

\* simplify() of the next child of the unit
SimplifyChild ==
    /\ AtUnit /\ child_i > 0 /\ child_i <= Len(UnitAt.children)
    /\ LET r == simplify(UnitAt, UnitAt.children[child_i], current_scope)
       IN /\ nodes' = [nodes EXCEPT ![top_nodes[order[pos]]].children[child_i] = r.node]
          /\ current_scope' = r.scope
    /\ child_i' = child_i + 1
    /\ UNCHANGED <<objVars, procVars, rootVars, top_nodes, cells, visits, filled, flatRest, pc, order, pos,
                   current_ast_mod, design>>

\* the children are done: clear_current_scope, and in the second loop the
\* unit becomes a child of the design
EndUnit ==
    /\ AtUnit /\ child_i = Len(UnitAt.children) + 1
    /\ current_scope' = clear_current_scope(current_scope)
    /\ current_ast_mod' = ""
    /\ design' = IF pc = "units" THEN Append(design, UnitAt.str) ELSE design
    /\ pos' = pos + 1
    /\ child_i' = 0
    /\ UNCHANGED <<objVars, procVars, rootVars, modVars, flatRest, pc, order>>

\* the second loop puts a package in front of the design's children
KeepPackage ==
    /\ AtUnit /\ pc = "units" /\ child_i = 0
    /\ KeptInDesign(UnitAt) /\ UnitAt.type = "AST_PACKAGE"
    /\ design' = <<UnitAt.str>> \o design
    /\ pos' = pos + 1
    /\ UNCHANGED <<objVars, procVars, rootVars, modVars, flatVars, pc, order, child_i, current_ast_mod>>

\* the second loop deletes a unit that is still partial
DropUnit ==
    /\ AtUnit /\ pc = "units" /\ child_i = 0
    /\ ~KeptInDesign(UnitAt)
    /\ nodes' = [nodes EXCEPT ![top_nodes[order[pos]]] =
                                  [@ EXCEPT !.type = "deleted", !.children = << >>]]
    /\ pos' = pos + 1
    /\ UNCHANGED <<objVars, procVars, rootVars, top_nodes, cells, visits, filled, flatVars, pc, order, child_i,
                   current_ast_mod, design>>

\* the first loop is over
NextLoop ==
    /\ pc = "packages" /\ pos > Len(order)
    /\ pc' = "units"
    /\ pos' = 1
    /\ UNCHANGED <<objVars, procVars, rootVars, modVars, flatVars, order, child_i, current_ast_mod, design>>

\* process_design returns
Finish ==
    /\ pc = "units" /\ pos > Len(order)
    /\ pc' = "done"
    /\ UNCHANGED <<objVars, procVars, rootVars, modVars, flatVars, order, pos, child_i, current_ast_mod, design>>

NextDesign ==
    \/ SkipUnit
    \/ BeginUnit
    \/ SimplifyChild
    \/ EndUnit
    \/ KeepPackage
    \/ DropUnit
    \/ NextLoop
    \/ Finish

SpecDesign == InitDesign /\ [][NextDesign]_vars

(***************************************************************************)
(* SpecMemories: process_design over a design of the package Q, a module   *)
(* M and the partial module D, where the children of M are a declaration   *)
(* m with one packed and one unpacked range and, in any order around it,   *)
(* a reference to m as a whole, a reference m[1] and a $readmemh call on   *)
(* m.                                                                      *)
(***************************************************************************)
MemoryItems ==
    { UnitDecl("AST_WIRE", "\\m", <<make_range(3, 0)>>, <<make_range(1, 0)>>),
      Identifier("\\m", << >>),
      Identifier("\\m", <<Selector(<<1>>)>>),
      Readmemh("\\m") }

MemoryModules ==
    { Unit("AST_MODULE", "\\M", 0, q) :
        q \in { c \in UNION { SeqsOf(MemoryItems, n) : n \in 1..Cardinality(MemoryItems) } :
                  Injective(c) /\ \E i \in DOMAIN c : c[i].type = "AST_WIRE" } }

InitMemories ==
    /\ FlatIdle
    /\ ObjIdle
    /\ ProcIdle
    /\ cells = << >>
    /\ visits = 0
    /\ filled = << >>
    /\ \E m \in MemoryModules :
           LET d == << Unit("AST_PACKAGE", "\\Q", 0,
                            << UnitDecl("AST_PARAMETER", "\\WP", << >>, << >>) >>),
                       m,
                       Unit("AST_MODULE", "\\D", 1,
                            << UnitDecl("AST_WIRE", "\\d", << >>, << >>) >>) >>
           IN /\ nodes = d
              /\ order = [i \in DOMAIN d |-> d[i].str]
              /\ top_nodes = [n \in {d[i].str : i \in DOMAIN d} |->
                                 CHOOSE i \in DOMAIN d : d[i].str = n]
    /\ pc = "packages"
    /\ pos = 1
    /\ child_i = 0
    /\ current_ast_mod = ""
    /\ design = << >>
    /\ designs_seen = 0
    /\ root = << >>
    /\ simplify_calls = << >>

\* check_memories does not return: see check_memories_null
AbortUnit ==
    /\ AtUnit /\ child_i = 0
    /\ IF pc = "packages" THEN UnitAt.type = "AST_PACKAGE"
       ELSE KeptInDesign(UnitAt) /\ UnitAt.type /= "AST_PACKAGE"
    /\ check_memories_null(UnitAt.children)
    /\ aborted' = TRUE
    /\ pc' = "aborted"
    /\ UNCHANGED <<objVars, procVars, rootVars, modVars, wire, declared, calls, after_first, current_scope,
                   ident, struct_node, visited, order, pos, child_i, current_ast_mod,
                   design>>

NextMemories ==
    \/ NextDesign
    \/ AbortUnit

SpecMemories == InitMemories /\ [][NextMemories]_vars

(***************************************************************************)
(* SpecDesigns: visit_designs over up to MaxDesigns designs.  Every design *)
(* gets its own UhdmAst object, all of them on the same shared registry:   *)
(* process_design of a later design registers the units of that design     *)
(* next to the ones that are already there and runs its two loops over the *)
(* whole registry.                                                         *)
(***************************************************************************)
MaxDesigns == 2

\* visit_designs appends the children of the node process_object returned
AppendDesign ==
    /\ pc = "done"
    /\ root' = root \o design
    /\ designs_seen' = designs_seen + 1
    /\ pc' = "appended"
    /\ UNCHANGED <<objVars, procVars, modVars, flatVars, order, pos, child_i, current_ast_mod,
                   design, simplify_calls>>

\* process_design of the next design: its AST_DESIGN node is empty, and the
\* units it walks (none, when all of them are registered already) enter the
\* registry, whose iteration order may then be any
WalkDesign ==
    /\ pc = "appended" /\ designs_seen < MaxDesigns
    /\ \E n \in 0..(MaxUnits - Len(nodes)) :
         \E add \in {q \in SeqsOf(UnitPool, n) :
                        /\ Injective(q)
                        /\ \A i \in DOMAIN q : q[i].str \notin DOMAIN top_nodes} :
           /\ nodes' = nodes \o add
           /\ top_nodes' = [u \in DOMAIN top_nodes \cup {add[i].str : i \in DOMAIN add} |->
                               IF u \in DOMAIN top_nodes THEN top_nodes[u]
                               ELSE Len(nodes) + (CHOOSE i \in DOMAIN add : add[i].str = u)]
           /\ \E o \in {q \in SeqsOf(DOMAIN top_nodes', Len(nodes')) : Injective(q)} :
                  order' = o
    /\ pc' = "packages"
    /\ pos' = 1
    /\ child_i' = 0
    /\ design' = << >>
    /\ UNCHANGED <<objVars, procVars, cells, visits, filled, flatVars, current_ast_mod, rootVars>>

\* a loop of process_design comes to a unit that an earlier process_design
\* deleted: the registry still holds the pointer, and the loop reads the type
\* and the partial attribute through it.  When the freed storage reads as it
\* was left the unit is passed by the first loop (SkipUnit) and deleted a
\* second time by the second (DropUnit); the read or the second delete may
\* as well end the process, or the storage may read as a unit that is not
\* partial, which then becomes a child of the design.
TouchDeleted ==
    /\ AtUnit /\ child_i = 0
    /\ UnitAt.type = "deleted"
    /\ \/ /\ aborted' = TRUE
          /\ pc' = "aborted"
          /\ UNCHANGED <<pos, design>>
       \/ /\ pc = "units"
          /\ design' = Append(design, UnitAt.str)
          /\ pos' = pos + 1
          /\ UNCHANGED <<pc, aborted>>
    /\ UNCHANGED <<objVars, procVars, modVars, wire, declared, calls, after_first, current_scope,
                   ident, struct_node, visited, order, child_i, current_ast_mod,
                   rootVars>>

NextDesigns ==
    \/ NextDesign
    \/ AppendDesign
    \/ WalkDesign
    \/ TouchDeleted

SpecDesigns == InitDesign /\ [][NextDesigns]_vars

(***************************************************************************)
(* SpecModule: the children of one module while it is built: children      *)
(* come in through add_or_replace_child, default values of variables       *)
(* through visit_default_expr, MaxInsertions times in all.                 *)
(*                                                                         *)
(***************************************************************************)
MaxInsertions == 4

\* find_if: the place of the first child of the type, end() if there is none
find_type(children, type) ==
    LET found == {i \in DOMAIN children : children[i].type = type}
    IN IF found = {} THEN Len(children) + 1 ELSE FirstIndex(found)

\* the log_asserts of add_or_replace_child fail: an unnamed AST_INITIAL
\* comes to a parent that has one, and one of the two lacks its AST_BLOCK
add_or_replace_child_asserts(children, child) ==
    /\ child.str = ""
    /\ child.type = "AST_INITIAL"
    /\ find_type(children, "AST_INITIAL") <= Len(children)
    /\ LET initial_node == children[find_type(children, "AST_INITIAL")]
       IN \/ initial_node.kids = << >>
          \/ initial_node.kids[1].type /= "AST_BLOCK"
          \/ child.kids = << >>
          \/ child.kids[1].type /= "AST_BLOCK"

Parent(type, str, kids) == [Node(type, str) EXCEPT !.kids = kids]

\* visit_default_expr for the variable str with the default value expr_node
visit_default_expr(children, str, expr_node) ==
    LET assign_node == Parent("AST_ASSIGN_EQ", "",
                              <<Node("AST_IDENTIFIER", str), expr_node>>)
        found == find_type(children, "AST_INITIAL")
        with_initial == IF found <= Len(children) THEN children
                        ELSE InsertAt(children, find_type(children, "AST_ALWAYS"),
                                      Node("AST_INITIAL", ""))
        at == find_type(with_initial, "AST_INITIAL")
        initial_node == with_initial[at]
        with_block == IF initial_node.kids /= << >>
                      THEN initial_node.kids
                      ELSE <<Node("AST_BLOCK", "")>>
        block_node == with_block[1]
        block_child == find_type(block_node.kids, "AST_ASSIGN_EQ")
    IN [with_initial EXCEPT ![at].kids =
           [with_block EXCEPT ![1].kids =
               InsertAt(block_node.kids, block_child, assign_node)]]

\* what process_module hands to add_or_replace_child: variables and nets a
\* and b, a as a port and as a memory too, an always block, and initial
\* blocks as process_initial returns them: with the statement in a block,
\* or without a child when the statement was not lowered
NamedChildren ==
    { Node("AST_WIRE", "\\a"),
      [Parent("AST_WIRE", "\\a", <<make_range(3, 0)>>) EXCEPT !.is_input = TRUE],
      Node("AST_MEMORY", "\\a"),
      Parent("AST_WIRE", "\\b", <<Node("AST_WIRETYPE", "\\t_t")>>) }

InitialChildren ==
    { Parent("AST_INITIAL", "",
             <<Parent("AST_BLOCK", "", <<Node("AST_ASSIGN_LE", "")>>)>>),
      Node("AST_INITIAL", "") }

AlwaysChildren == { Node("AST_ALWAYS", "") }

InitModule ==
    /\ ModIdle
    /\ FlatIdle
    /\ DesIdle
    /\ ObjIdle
    /\ mod_children = << >>
    /\ inserted = 0
    /\ stream = Node("AST_NONE", "")
    /\ loop_pc = "idle"
    /\ loop_i = 0
    /\ iterations = << >>

AddChild(child) ==
    /\ ~aborted /\ inserted < MaxInsertions
    /\ IF add_or_replace_child_asserts(mod_children, child)
       THEN aborted' = TRUE /\ UNCHANGED mod_children
       ELSE /\ mod_children' = add_or_replace_child(mod_children, child)
            /\ UNCHANGED aborted
    /\ inserted' = inserted + 1
    /\ UNCHANGED <<stream, loop_pc, loop_i, iterations>>

VisitDefaultExpr(str) ==
    /\ ~aborted /\ inserted < MaxInsertions
    /\ mod_children' = visit_default_expr(mod_children, str, mkconst_int(1, 32))
    /\ inserted' = inserted + 1
    /\ UNCHANGED <<aborted, stream, loop_pc, loop_i, iterations>>

moduleFrame ==
    <<modVars, desVars, objVars, wire, declared, calls, after_first, current_scope,
      ident, struct_node, visited>>

NextModule ==
    \/ \E child \in NamedChildren : AddChild(child) /\ UNCHANGED moduleFrame
    \/ \E child \in InitialChildren : AddChild(child) /\ UNCHANGED moduleFrame
    \/ \E child \in AlwaysChildren : AddChild(child) /\ UNCHANGED moduleFrame
    \/ \E str \in {"\\a", "\\b"} : VisitDefaultExpr(str) /\ UNCHANGED moduleFrame

SpecModule == InitModule /\ [][NextModule]_vars

(***************************************************************************)
(* SpecStream: process_stream_op turns a streaming operator on the right   *)
(* of an assignment to an n-bit left-hand side into a for loop; the loop   *)
(* is then run as Verilog runs it.  Expressions are nodes whose operands   *)
(* are their kids; the numbers stay far below 32 bits.                     *)
(***************************************************************************)
MaxBits == 8

\* the loop condition with < in place of <=
loop_cond_lt(loop_counter_ident, bits_call, slice_size) ==
    Parent("AST_LT", "", <<loop_counter_ident, Parent("AST_SUB", "", <<bits_call, slice_size>>)>>)

\* the loop condition: counter <= $bits(lhs) - slice_size
loop_cond(loop_counter_ident, bits_call, slice_size) ==
    Parent("AST_LE", "", <<loop_counter_ident, Parent("AST_SUB", "", <<bits_call, slice_size>>)>>)

\* process_stream_op: the AST_FOR node for the operands of the operator; the
\* first constant among them is the slice size, 1 if there is none
process_stream_op(operands, loop_id) ==
    LET consts == {k \in DOMAIN operands : operands[k].type = "AST_CONSTANT"}
        slice_size == IF consts = {} THEN mkconst_int(1, 32)
                      ELSE operands[FirstIndex(consts)]
        loop_counter_ident == Node("AST_IDENTIFIER", "\\loop" \o to_string(loop_id) \o "::i")
        temp_var_ident == Node("AST_IDENTIFIER", "\\loop" \o to_string(loop_id) \o "::temp")
        lhs_node == Node("AST_IDENTIFIER", "\\lhs")
        bits_call == Parent("AST_FCALL", "\\$bits", <<lhs_node>>)
        init_stmt == Parent("AST_ASSIGN_EQ", "", <<loop_counter_ident, mkconst_int(0, 32)>>)
        cond_stmt == loop_cond(loop_counter_ident, bits_call, slice_size)
        inc_stmt == Parent("AST_ASSIGN_EQ", "",
                           <<loop_counter_ident,
                             Parent("AST_ADD", "", <<loop_counter_ident, slice_size>>)>>)
        lhs_selfsz == Parent("AST_SELFSZ", "",
                             <<Parent("AST_SUB", "",
                                      <<Parent("AST_SUB", "", <<bits_call, mkconst_int(1, 32)>>),
                                        loop_counter_ident>>)>>)
        lhs_range == Parent("AST_RANGE", "",
                            <<Parent("AST_ADD", "", <<lhs_selfsz, mkconst_int(0, 32)>>),
                              Parent("AST_SUB", "",
                                     <<Parent("AST_ADD", "", <<lhs_selfsz, mkconst_int(1, 32)>>),
                                       slice_size>>)>>)
        rhs_selfsz == Parent("AST_SELFSZ", "", <<loop_counter_ident>>)
        rhs_range == Parent("AST_RANGE", "",
                            <<Parent("AST_SUB", "",
                                     <<Parent("AST_ADD", "", <<rhs_selfsz, slice_size>>),
                                       mkconst_int(1, 32)>>),
                              Parent("AST_ADD", "", <<rhs_selfsz, mkconst_int(0, 32)>>)>>)
        assign_node == Parent("AST_ASSIGN_EQ", "",
                              <<[lhs_node EXCEPT !.kids = <<lhs_range>>],
                                [temp_var_ident EXCEPT !.kids = <<rhs_range>>]>>)
    IN Parent("AST_FOR", "$loop" \o to_string(loop_id),
              <<init_stmt, cond_stmt, inc_stmt,
                Parent("AST_BLOCK", "\\stream_op_block" \o to_string(loop_id),
                       <<assign_node>>)>>)

\* the value of an expression when the loop counter is i and the left-hand
\* side has n bits
RECURSIVE eval(_, _, _)
eval(e, i, n) ==
    CASE e.type = "AST_CONSTANT" -> e.integer
      [] e.type = "AST_IDENTIFIER" -> i
      [] e.type = "AST_FCALL" -> n
      [] e.type = "AST_SELFSZ" -> eval(e.kids[1], i, n)
      [] e.type = "AST_ADD" -> eval(e.kids[1], i, n) + eval(e.kids[2], i, n)
      [] e.type = "AST_SUB" -> eval(e.kids[1], i, n) - eval(e.kids[2], i, n)
      [] e.type = "AST_LE" ->
            IF eval(e.kids[1], i, n) <= eval(e.kids[2], i, n) THEN 1 ELSE 0
      [] e.type = "AST_LT" ->
            IF eval(e.kids[1], i, n) < eval(e.kids[2], i, n) THEN 1 ELSE 0

\* the operators: an n-bit left-hand side, and either a slice size of
\* 1..n bits in front of the streamed expression or no slice size
StreamOps ==
    { [n |-> n, operands |-> <<mkconst_int(sz, 32), Node("AST_IDENTIFIER", "\\rhs")>>,
       loop |-> Node("AST_NONE", "")] : n \in 1..MaxBits, sz \in 1..MaxBits }
    \cup
    { [n |-> n, operands |-> <<Node("AST_IDENTIFIER", "\\rhs")>>,
       loop |-> Node("AST_NONE", "")] : n \in 1..MaxBits }

InitStream ==
    /\ ModIdle
    /\ FlatIdle
    /\ DesIdle
    /\ ObjIdle
    /\ mod_children = << >>
    /\ inserted = 0
    /\ stream \in {op \in StreamOps :
                      op.operands[1].type = "AST_CONSTANT" => op.operands[1].integer <= op.n}
    /\ loop_pc = "op"
    /\ loop_i = 0
    /\ iterations = << >>

\* process_stream_op makes the loop
BuildLoop ==
    /\ loop_pc = "op"
    /\ stream' = [stream EXCEPT !.loop = process_stream_op(stream.operands, 0)]
    /\ loop_pc' = "init"
    /\ UNCHANGED <<loop_i, iterations>>

\* the initialisation statement of the loop
LoopInit ==
    /\ loop_pc = "init"
    /\ loop_i' = eval(stream.loop.kids[1].kids[2], loop_i, stream.n)
    /\ loop_pc' = "test"
    /\ UNCHANGED <<stream, iterations>>

\* the condition holds: the assignment of the block, then the increment
LoopBody ==
    /\ loop_pc = "test"
    /\ eval(stream.loop.kids[2], loop_i, stream.n) = 1
    /\ LET assign_node == stream.loop.kids[4].kids[1]
           lhs_range == assign_node.kids[1].kids[1]
           rhs_range == assign_node.kids[2].kids[1]
       IN iterations' = Append(iterations,
              [i |-> loop_i,
               lhs_left |-> eval(lhs_range.kids[1], loop_i, stream.n),
               lhs_right |-> eval(lhs_range.kids[2], loop_i, stream.n),
               rhs_left |-> eval(rhs_range.kids[1], loop_i, stream.n),
               rhs_right |-> eval(rhs_range.kids[2], loop_i, stream.n)])
    /\ loop_i' = eval(stream.loop.kids[3].kids[2], loop_i, stream.n)
    /\ UNCHANGED <<stream, loop_pc>>

\* the condition fails
LoopExit ==
    /\ loop_pc = "test"
    /\ eval(stream.loop.kids[2], loop_i, stream.n) = 0
    /\ loop_pc' = "done"
    /\ UNCHANGED <<stream, loop_i, iterations>>

streamFrame == <<modVars, flatVars, desVars, objVars, mod_children, inserted>>

NextStream ==
    \/ BuildLoop /\ UNCHANGED streamFrame
    \/ LoopInit /\ UNCHANGED streamFrame
    \/ LoopBody /\ UNCHANGED streamFrame
    \/ LoopExit /\ UNCHANGED streamFrame

SpecStream == InitStream /\ [][NextStream]_vars

\* a simulator keeps running a loop it has started
SpecStreamFair == SpecStream /\ WF_vars(NextStream)

(***************************************************************************)
(* The lowering of single objects: process_object and the handlers of      *)
(* struct members, enum typespecs, parameters, ports and integer           *)
(* variables. An input object is a record                                  *)
(*   [kind, name, typespec, ts_ranges, ranges, consts, value, local, dir]  *)
(* typespec is the kind of the object's typespec (base typespec of an      *)
(* enum, actual of a port's low connection), "none" when it has none;      *)
(* ts_ranges are the ranges of that typespec, ranges the object's own.     *)
(***************************************************************************)
\* no node: nullptr
None == [type |-> "nullptr"]

VpiObject(kind, name, typespec, ts_ranges) ==
    [kind |-> kind, name |-> name, typespec |-> typespec, ts_ranges |-> ts_ranges,
     ranges |-> << >>, consts |-> << >>, value |-> 0, local |-> FALSE,
     dir |-> "none"]

\* make_ast_node: a node of the type, named after the object
make_ast_node(type, obj) ==
    [type |-> type, str |-> obj.name, children |-> << >>,
     is_logic |-> FALSE, is_signed |-> FALSE,
     is_input |-> FALSE, is_output |-> FALSE, port_id |-> 0,
     attributes |-> [has_ranges |-> FALSE, packed_ranges |-> << >>,
                     unpacked_ranges |-> << >>, is_imported |-> FALSE]]

\* visit_range: nothing, the one range, or an AST_MULTIRANGE of the ranges
visit_range(ranges) ==
    IF Len(ranges) > 1
    THEN << [type |-> "AST_MULTIRANGE", str |-> "", children |-> ranges] >>
    ELSE ranges

\* process_value of an integer constant
process_value(v) == mkconst_int(v, 32)

\* the typespec kinds the handlers have an arm for
MemberTypespecs == {"vpiLogicTypespec", "vpiBitTypespec", "vpiIntTypespec"}
EnumBaseTypespecs == {"vpiLogicTypespec", "vpiIntTypespec"}
ParameterTypespecs ==
    {"vpiLogicTypespec", "vpiBitTypespec", "vpiEnumTypespec", "vpiRealTypespec",
     "vpiIntTypespec"}
PortActuals ==
    {"vpiLogicNet", "vpiLogicVar", "vpiEnumNet", "vpiStructNet", "vpiIntVar"}

\* process_typespec_member: the node exists before the typespec is looked at
process_typespec_member(obj) ==
    LET node == [make_ast_node("AST_STRUCT_ITEM", obj) EXCEPT !.str = substr1(@)]
    IN IF obj.typespec \in {"vpiLogicTypespec", "vpiBitTypespec"}
       THEN [node |-> [node EXCEPT !.is_logic = TRUE,
                                   !.children = visit_range(obj.ts_ranges)],
             reported |-> FALSE]
       ELSE IF obj.typespec = "vpiIntTypespec"
       THEN [node |-> [node EXCEPT !.is_signed = TRUE], reported |-> FALSE]
       ELSE [node |-> node, reported |-> TRUE]

\* process_enum_const
process_enum_const(const) ==
    [make_ast_node("AST_ENUM_ITEM", const) EXCEPT
        !.children = <<process_value(const.value)>>]

\* process_enum_typespec: the node and its items exist before the base
\* typespec is looked at
process_enum_typespec(obj) ==
    LET items == [i \in DOMAIN obj.consts |-> process_enum_const(obj.consts[i])]
        node == [make_ast_node("AST_ENUM", obj) EXCEPT !.children = items]
        range == IF obj.ts_ranges = << >>
                 THEN << [type |-> "AST_RANGE", str |-> "",
                          children |-> <<mkconst_int(0, 32)>>] >>
                 ELSE visit_range(obj.ts_ranges)
    IN IF obj.typespec = "none"
       THEN [node |-> node, reported |-> FALSE]
       ELSE IF obj.typespec = "vpiLogicTypespec"
       THEN [node |-> [node EXCEPT
                          !.is_logic = TRUE,
                          !.children = [i \in DOMAIN items |->
                              [items[i] EXCEPT !.children = @ \o range]]],
             reported |-> FALSE]
       ELSE IF obj.typespec = "vpiIntTypespec"
       THEN [node |-> [node EXCEPT !.is_signed = TRUE], reported |-> FALSE]
       ELSE [node |-> node, reported |-> TRUE]

\* process_parameter; imported is the outcome of comparing the vpiImported
\* string with ""
process_parameter(obj, imported) ==
    LET type == IF obj.local THEN "AST_LOCALPARAM" ELSE "AST_PARAMETER"
        node == [make_ast_node(type, obj) EXCEPT !.attributes.is_imported = imported]
        logic == obj.typespec \in {"vpiLogicTypespec", "vpiBitTypespec"}
        packed_ranges == IF logic THEN obj.ts_ranges ELSE << >>
        typed == IF obj.typespec = "none"
                 THEN [node EXCEPT !.children = <<process_value(obj.value)>>]
                 ELSE IF logic THEN [node EXCEPT !.is_logic = TRUE]
                 ELSE node
    IN [node |-> add_multirange_wire(typed, packed_ranges, obj.ranges, TRUE),
        reported |-> obj.typespec \notin ParameterTypespecs \cup {"none"}]

\* process_port: the typespec is the actual of the low connection
process_port(obj, id) ==
    LET node == [make_ast_node("AST_WIRE", obj) EXCEPT !.port_id = id]
        logic == obj.typespec \in {"vpiLogicNet", "vpiLogicVar"}
        packed_ranges == IF logic THEN obj.ts_ranges ELSE << >>
        typed == IF logic THEN [node EXCEPT !.is_logic = TRUE] ELSE node
        directed == [typed EXCEPT
                        !.is_input = obj.dir \in {"vpiInput", "vpiInout"},
                        !.is_output = obj.dir \in {"vpiOutput", "vpiInout"}]
    IN [node |-> add_multirange_wire(directed, packed_ranges, << >>, TRUE),
        reported |-> obj.typespec \notin PortActuals \cup {"none"}]

\* process_byte_var and process_long_int_var
process_int_var(obj, bits) ==
    [node |-> [make_ast_node("AST_WIRE", obj) EXCEPT
                  !.children = <<make_range(bits - 1, 0)>>],
     reported |-> FALSE]

\* the default arm of process_object: current_node stays unset
process_default(obj) == [node |-> None, reported |-> TRUE]

\* the input objects
ObjectPool ==
    { VpiObject("vpiTypespecMember", "\\a", "vpiLogicTypespec", r) :
        r \in {<< >>, <<make_range(3, 0)>>, <<make_range(3, 0), make_range(1, 0)>>} }
    \cup { VpiObject("vpiTypespecMember", "\\a", t, << >>) :
             t \in {"vpiIntTypespec", "vpiStringTypespec"} }
    \cup { [VpiObject("vpiEnumTypespec", "\\E", t, << >>) EXCEPT
               !.consts = << [name |-> "\\p", value |-> 0],
                             [name |-> "\\q", value |-> 1] >>] :
             t \in {"none", "vpiLogicTypespec", "vpiIntTypespec", "vpiStringTypespec"} }
    \cup { [VpiObject("vpiEnumTypespec", "\\E", "vpiLogicTypespec",
                      <<make_range(1, 0)>>) EXCEPT
               !.consts = << [name |-> "\\p", value |-> 0] >>] }
    \cup { [VpiObject("vpiParameter", "\\WP", t, << >>) EXCEPT !.value = 8] :
             t \in {"none", "vpiLogicTypespec", "vpiIntTypespec", "vpiStringTypespec"} }
    \cup { [VpiObject("vpiParameter", "\\LP", "vpiLogicTypespec",
                      <<make_range(3, 0)>>) EXCEPT
               !.local = TRUE, !.ranges = <<make_range(1, 0)>>] }
    \cup { [VpiObject("vpiPort", "\\b", t, << >>) EXCEPT !.dir = "vpiInput"] :
             t \in {"none", "vpiLogicNet", "vpiEnumNet", "vpiStringVar"} }
    \cup { [VpiObject("vpiPort", "\\c", "vpiLogicNet", <<make_range(3, 0)>>)
               EXCEPT !.dir = "vpiInout"] }
    \cup { VpiObject(k, "\\d", "none", << >>) :
             k \in {"vpiByteVar", "vpiLongIntVar", "vpiProgram", "vpiCheckerDecl"} }

\* the object has no lowering rule: its kind has no arm in process_object, or
\* its typespec has no arm in the handler of its kind
Unhandled(obj) ==
    CASE obj.kind = "vpiTypespecMember" -> obj.typespec \notin MemberTypespecs
      [] obj.kind = "vpiEnumTypespec" ->
            obj.typespec \notin EnumBaseTypespecs \cup {"none"}
      [] obj.kind = "vpiParameter" ->
            obj.typespec \notin ParameterTypespecs \cup {"none"}
      [] obj.kind = "vpiPort" -> obj.typespec \notin PortActuals \cup {"none"}
      [] OTHER -> obj.kind \notin {"vpiByteVar", "vpiLongIntVar"}

InitObject ==
    /\ ModIdle
    /\ FlatIdle
    /\ DesIdle
    /\ ProcIdle
    /\ objects \in UNION { SeqsOf(ObjectPool, n) : n \in 1..MaxObjects }
    /\ obj_i = 1
    /\ lowered = << >>
    /\ handled = {}
    /\ warnings = 0
    /\ port_id = 0
    /\ stop_on_error \in BOOLEAN
    /\ errored = FALSE

\* vpi_scan has an object of one of the kinds to hand to process_object
AtObject(kinds) ==
    /\ ~errored
    /\ obj_i \in DOMAIN objects
    /\ objects[obj_i].kind \in kinds

\* report_error, the end of process_object and the caller's callback: an
\* error ends the run under stop_on_error; else the handler's node, when it
\* is set and not AST_NONE, is marked handled and returned
Return(r) ==
    IF r.reported /\ stop_on_error
    THEN /\ errored' = TRUE
         /\ UNCHANGED <<obj_i, lowered, handled, warnings>>
    ELSE LET built == r.node.type \notin {"nullptr", "AST_NONE"}
         IN /\ warnings' = IF r.reported THEN warnings + 1 ELSE warnings
            /\ lowered' = Append(lowered, IF built THEN r.node ELSE None)
            /\ handled' = IF built THEN handled \cup {obj_i} ELSE handled
            /\ obj_i' = obj_i + 1
            /\ UNCHANGED errored

ProcessTypespecMember ==
    /\ AtObject({"vpiTypespecMember"})
    /\ Return(process_typespec_member(objects[obj_i]))
    /\ UNCHANGED <<objects, port_id, stop_on_error>>

ProcessEnumTypespec ==
    /\ AtObject({"vpiEnumTypespec"})
    /\ Return(process_enum_typespec(objects[obj_i]))
    /\ UNCHANGED <<objects, port_id, stop_on_error>>

ProcessParameter ==
    /\ AtObject({"vpiParameter"})
    /\ \E imported \in BOOLEAN :
           Return(process_parameter(objects[obj_i], imported))
    /\ UNCHANGED <<objects, port_id, stop_on_error>>

ProcessPort ==
    /\ AtObject({"vpiPort"})
    /\ port_id' = port_id + 1
    /\ Return(process_port(objects[obj_i], port_id + 1))
    /\ UNCHANGED <<objects, stop_on_error>>

ProcessByteVar ==
    /\ AtObject({"vpiByteVar"})
    /\ Return(process_int_var(objects[obj_i], 8))
    /\ UNCHANGED <<objects, port_id, stop_on_error>>

ProcessLongIntVar ==
    /\ AtObject({"vpiLongIntVar"})
    /\ Return(process_int_var(objects[obj_i], 64))
    /\ UNCHANGED <<objects, port_id, stop_on_error>>

ProcessDefault ==
    /\ AtObject({"vpiProgram", "vpiCheckerDecl"})
    /\ Return(process_default(objects[obj_i]))
    /\ UNCHANGED <<objects, port_id, stop_on_error>>

NextObject ==
    \/ ProcessTypespecMember /\ UNCHANGED <<modVars, flatVars, desVars, procVars>>
    \/ ProcessEnumTypespec /\ UNCHANGED <<modVars, flatVars, desVars, procVars>>
    \/ ProcessParameter /\ UNCHANGED <<modVars, flatVars, desVars, procVars>>
    \/ ProcessPort /\ UNCHANGED <<modVars, flatVars, desVars, procVars>>
    \/ ProcessByteVar /\ UNCHANGED <<modVars, flatVars, desVars, procVars>>
    \/ ProcessLongIntVar /\ UNCHANGED <<modVars, flatVars, desVars, procVars>>
    \/ ProcessDefault /\ UNCHANGED <<modVars, flatVars, desVars, procVars>>

SpecObject == InitObject /\ [][NextObject]_vars

(***************************************************************************)
(* Properties of the registry.                                             *)
(***************************************************************************)
Last(s) == s[Len(s)]

\* the entities allocated under a name
EntitiesNamed(name) == {k \in DOMAIN nodes : nodes[k].str = name}

\* the instantiation that the step just made, if it made one
Instantiated == Len(cells') = Len(cells) + 1

\* two assignment lists over the same parameters, with a value that differs
SameParameters(pa, pb) ==
    /\ Len(pa) = Len(pb)
    /\ Len(pa) > 0
    /\ \A k \in DOMAIN pa : pa[k].type = "AST_PARAMETER" /\ pb[k].type = "AST_PARAMETER"
                            /\ pa[k].str = pb[k].str

ValuesDiffer(pa, pb) == \E k \in DOMAIN pa : pa[k].kids[1] /= pb[k].kids[1]

\* every assigned value is the default value of the generic definition
AllDefault(type, pa) ==
    \A k \in DOMAIN pa :
        \E d \in DOMAIN DefChildren(type) :
            /\ DefChildren(type)[d].str = pa[k].str
            /\ DefChildren(type)[d].kids = pa[k].kids

\* C1: two instantiations of one type with the same serialized parameter
\* assignment resolve to one registry entity: one entity was ever allocated
\* under the specialized name, the registry maps the name to it, the later
\* instantiation found it by the lookup, and both cells reference that name.
C1_SpecializationDedup ==
    \A i, j \in DOMAIN cells :
        (i < j /\ cells[i].type = cells[j].type
               /\ cells[i].module_parameters = cells[j].module_parameters)
        => /\ cells[i].celltype = cells[j].celltype
           /\ cells[i].entity = cells[j].entity
           /\ cells[j].found
           /\ cells[j].celltype \in DOMAIN top_nodes
           /\ top_nodes[cells[j].celltype] = cells[j].entity
           /\ EntitiesNamed(cells[j].celltype) = {cells[j].entity}

\* C1 witness: the same specialization was instantiated twice
C1_Witness ==
    \E i, j \in DOMAIN cells :
        /\ i < j
        /\ cells[i].type = cells[j].type
        /\ cells[i].module_parameters /= ""
        /\ cells[i].module_parameters = cells[j].module_parameters
        /\ Len(nodes) >= 2

\* C2 (as claimed): two instantiations of one defined generic whose parameter
\* values differ get two different specialized names, both different from the
\* generic's name, and two different entities.
C2_DistinctParamsDistinctEntities ==
    \A i, j \in DOMAIN cells :
        (/\ cells[i].type = cells[j].type
         /\ cells[i].generic_defined /\ cells[j].generic_defined
         /\ SameParameters(cells[i].pa, cells[j].pa)
         /\ ValuesDiffer(cells[i].pa, cells[j].pa))
        => /\ cells[i].celltype /= cells[j].celltype
           /\ cells[i].celltype /= cells[i].type
           /\ cells[j].celltype /= cells[j].type
           /\ cells[i].entity /= cells[j].entity

\* C3: an instantiation that carries parameter overrides of a registered type
\* leaves the generic entity as it was: the registry entry of the base name
\* and every field of that entity (name, attributes, children with the
\* parameter defaults) are unchanged by the step.
C3_GenericNotMutated ==
    [][(Instantiated /\ Last(cells').module_parameters /= "")
        => LET T == Last(cells').type IN
           /\ T \in DOMAIN top_nodes
           /\ top_nodes'[T] = top_nodes[T]
           /\ nodes'[top_nodes[T]] = nodes[top_nodes[T]]
           /\ nodes'[top_nodes[T]].str = T]_vars

\* C3 witness: a defined generic was specialized with a value other than its
\* default, and the clone carries the new value
C3_Witness ==
    \E i \in DOMAIN cells :
        /\ cells[i].generic_defined
        /\ cells[i].module_parameters = "\\W=32'd16"
        /\ cells[i].entity /= top_nodes[cells[i].type]
        /\ \E k \in DOMAIN nodes[cells[i].entity].children :
               /\ nodes[cells[i].entity].children[k].str = "\\W"
               /\ nodes[cells[i].entity].children[k].kids[1].integer = 16

\* C4: the cell's type name is the type name if the serialized assignment is
\* empty, "$paramod" + type + assignment if it has 1..60 characters, and
\* "$paramod$" + sha1(assignment) + type if it has more than 60; equal type
\* and assignment give equal names.
C4_NameDeterministic ==
    \A i \in DOMAIN cells :
        LET c == cells[i]
            a == c.module_parameters
        IN /\ (a = "" => c.celltype = c.type)
           /\ (Len(a) >= 1 /\ Len(a) <= 60 => c.celltype = "$paramod" \o c.type \o a)
           /\ (Len(a) > 60 => c.celltype = "$paramod$" \o sha1(a) \o c.type)
           /\ \A j \in DOMAIN cells :
                  (cells[j].type = c.type /\ cells[j].module_parameters = a)
                  => cells[j].celltype = c.celltype

\* C4 witness: assignments of exactly 60 and of 61 characters were named
C4_Witness ==
    /\ \E i \in DOMAIN cells : Len(cells[i].module_parameters) = 60
    /\ \E i \in DOMAIN cells : Len(cells[i].module_parameters) = 61

\* C5 (as claimed): a clone is made only if some assigned value differs from
\* the generic's default; with all values at their defaults the cell
\* references the generic's name and nothing is allocated or registered.
C5_CloneOnlyIfNonDefault ==
    [][(Instantiated /\ Last(cells').generic_defined)
        => LET c == Last(cells') IN
           /\ Len(nodes') > Len(nodes) => ~AllDefault(c.type, c.pa)
           /\ AllDefault(c.type, c.pa)
              => /\ c.celltype = c.type
                 /\ DOMAIN top_nodes' = DOMAIN top_nodes]_vars

\* C5 (amended): with the type registered, a clone is made exactly when the
\* serialized assignment is non-empty and its specialized name is not yet
\* registered; with an empty serialized assignment the cell references the
\* generic's name and its entity, and nothing is allocated or registered.
C5_CloneIffParameterized ==
    [][(Instantiated /\ Last(cells').registered)
        => LET c == Last(cells') IN
           /\ Len(nodes') = Len(nodes) + 1
              <=> (c.module_parameters /= "" /\ c.celltype \notin DOMAIN top_nodes)
           /\ Len(nodes') \in {Len(nodes), Len(nodes) + 1}
           /\ c.module_parameters = ""
              => /\ c.celltype = c.type
                 /\ c.entity = top_nodes[c.type]
                 /\ DOMAIN top_nodes' = DOMAIN top_nodes
                 /\ Len(nodes') = Len(nodes)]_vars

\* C5 witness: an instantiation whose only assignment equals the default was
\* given a clone of its own, and another one without assignments was not
C5_Witness ==
    /\ \E i \in DOMAIN cells :
           /\ cells[i].generic_defined
           /\ cells[i].pa /= << >>
           /\ AllDefault(cells[i].type, cells[i].pa)
           /\ cells[i].celltype /= cells[i].type
           /\ cells[i].entity /= top_nodes[cells[i].type]
    /\ \E i \in DOMAIN cells :
           /\ cells[i].generic_defined
           /\ cells[i].pa = << >>
           /\ cells[i].entity = top_nodes[cells[i].type]

C6_FlattenIdempotent ==
    calls >= 2 =>
        /\ wire.multirange_dimensions = after_first.multirange_dimensions
        /\ wire.children = after_first.children
        /\ wire.type = after_first.type


(***************************************************************************)
(* Properties of access rewriting.                                         *)
(***************************************************************************)
\* the dimensions in the order the selectors of an access address them
AccessOrder(d) == d.unpacked \o d.packed

RECURSIVE Product(_)
Product(ws) == IF ws = << >> THEN 1 ELSE Head(ws) * Product(Tail(ws))

\* sum over i of index_i times the product of the widths after i
RECURSIVE RowMajor(_, _)
RowMajor(idx, ws) ==
    IF idx = << >> THEN 0
    ELSE Head(idx) * Product(Tail(ws)) + RowMajor(Tail(idx), Tail(ws))

\* the access gives one bit select per declared dimension, each within the
\* declared bounds of its dimension
FullyIndexed ==
    /\ Len(declared.selectors) = Len(AccessOrder(declared))
    /\ \A i \in DOMAIN declared.selectors :
          /\ Len(declared.selectors[i].children) = 1
          /\ declared.selectors[i].children[1] >=
                 Min(AccessOrder(declared)[i].left, AccessOrder(declared)[i].right)
          /\ declared.selectors[i].children[1] <=
                 Max(AccessOrder(declared)[i].left, AccessOrder(declared)[i].right)

Rewritten == "identifier" \in visited /\ ident.basic_prep

\* C7: a fully indexed access to a flattened declaration is rewritten to the
\* single-bit range [o:o] with o the row-major offset of the indices over the
\* declared widths, whatever the lower bounds of the dimensions.  Stated here
\* for dimensions declared with descending bounds only.
C7_RowMajorOffset ==
    (/\ Rewritten
     /\ FullyIndexed
     /\ \A i \in DOMAIN AccessOrder(declared) : ~range_swapped(AccessOrder(declared)[i]))
    => LET o == RowMajor([i \in DOMAIN declared.selectors |->
                              declared.selectors[i].children[1]],
                         [i \in DOMAIN declared.selectors |->
                              Width(AccessOrder(declared)[i])])
       IN ident.children = <<make_range(o, o)>>

(***************************************************************************)
(* Properties of struct path expansion.                                    *)
(***************************************************************************)
RECURSIVE SumFrom(_, _)
SumFrom(ws, i) == IF i > Len(ws) THEN 0 ELSE ws[i] + SumFrom(ws, i + 1)

\* every member is a scalar
ScalarFields(st) ==
    \A i \in DOMAIN st.children : st.children[i].type = "AST_STRUCT_ITEM"

\* the widths of the members as declared
DeclaredWidths(st) ==
    [i \in DOMAIN st.children |->
        IF st.children[i].children = << >> THEN 1
        ELSE Width(st.children[i].children[1])]

\* the access is s.f for a single member f, with no selector anywhere
SingleFieldPath ==
    /\ Len(declared.selectors) = 1
    /\ declared.selectors[1].type = "AST_DOT"
    /\ declared.selectors[1].children = << >>

\* C8: for a struct of scalar fields the path naming the single field f_m
\* expands to a range of width w_m whose low bound is the sum of the widths
\* of the fields declared after f_m.
C8_FieldOffset ==
    (Rewritten /\ ScalarFields(struct_node) /\ SingleFieldPath) =>
        \E m \in DOMAIN struct_node.children :
            /\ struct_node.children[m].str = substr1(declared.selectors[1].str)
            /\ LET ws == DeclaredWidths(struct_node)
                   low == SumFrom(ws, m + 1)
               IN ident.children = <<make_range(low + ws[m] - 1, low)>>

\* the spec's example: in {a:[7:0]; b:[3:0]} the path .a is [11:4]
C8_Witness ==
    /\ Rewritten
    /\ SingleFieldPath
    /\ ScalarFields(struct_node)
    /\ DeclaredWidths(struct_node) = <<8, 4>>
    /\ declared.selectors[1].str = "\\a"
    /\ ident.children = <<make_range(11, 4)>>

(***************************************************************************)
(* Properties of the scope table under process_design.                     *)
(***************************************************************************)
\* the names a unit declares: its typedefs, enums, enum items, wires,
\* parameters and local parameters
DeclaredIn(u) ==
    LET decls == {j \in DOMAIN u.children :
                     u.children[j].type \in {"AST_TYPEDEF", "AST_ENUM", "AST_WIRE",
                         "AST_MEMORY", "AST_PARAMETER", "AST_LOCALPARAM"}}
        enums == {j \in DOMAIN u.children : u.children[j].type = "AST_ENUM"}
    IN {u.children[j].str : j \in decls}
       \cup UNION { {u.children[j].kids[k].str : k \in DOMAIN u.children[j].kids} :
                    j \in enums }

UnitNamed(str) == nodes[top_nodes[str]]

\* between units and after process_design has returned, nothing is in scope
ScopeClearBetweenUnits ==
    (child_i = 0 \/ pc = "done") => (current_scope = << >> /\ current_ast_mod = "")

\* C9 as stated: while a unit B is lowered the scope table has no entry for
\* a name that is declared in another unit (module, interface or package)
\* and not in B; between units and at the end the scope table is empty and
\* the elaboration target unset.
C9_ScopeIsolation ==
    /\ ScopeClearBetweenUnits
    /\ current_ast_mod /= "" =>
           \A n \in DOMAIN current_scope :
           \A a \in DOMAIN nodes :
               (nodes[a].str /= current_ast_mod /\ n \in DeclaredIn(nodes[a]))
                   => n \in DeclaredIn(UnitNamed(current_ast_mod))

\* C9 amended: while a unit B is lowered every entry of the scope table
\* points into B or into a package (the names setup_current_scope imports
\* from every package of the design), so no name declared only in another
\* module or interface is in scope; between units and at the end the scope
\* table is empty and the elaboration target unset.
C9_ScopeIsolationButPackages ==
    /\ ScopeClearBetweenUnits
    /\ current_ast_mod /= "" =>
           \A n \in DOMAIN current_scope :
               \/ /\ current_scope[n].unit = current_ast_mod
                  /\ n \in DeclaredIn(UnitNamed(current_ast_mod))
               \/ UnitNamed(current_scope[n].unit).type = "AST_PACKAGE"

\* module B is being lowered after module A was: B's wire is in scope, the
\* package's parameter is, A's wire and A's parameter are not
C9_Witness ==
    /\ pc = "units"
    /\ current_ast_mod = "\\B"
    /\ "\\A" \in Range(design)
    /\ child_i = 2
    /\ "\\WA" \in DOMAIN current_scope
    /\ current_scope["\\WA"].unit = "\\B"
    /\ "\\WP" \in DOMAIN current_scope
    /\ "\\a" \notin DOMAIN current_scope

(***************************************************************************)
(* Properties of the design assembly.                                      *)
(***************************************************************************)
\* the cells among the children of a unit
CellsOf(u) ==
    {u.children[j] : j \in {k \in DOMAIN u.children : u.children[k].type = "AST_CELL"}}

\* the unit as the walk left it in the registry
Walked(str) == CHOOSE u \in UnitPool : u.str = str

\* C11: when process_design has assembled the design, every entity that
\* carried the partial marker is dropped (deleted, not a child of the
\* design), every entity without the marker is a child of the design, and
\* the cells of the kept units are as the walk left them, also those that
\* name a dropped entity.
C11_PartialDropped ==
    pc = "done" =>
        \A i \in DOMAIN nodes :
            IF Walked(nodes[i].str).attributes.partial /= 0
            THEN nodes[i].type = "deleted" /\ nodes[i].str \notin Range(design)
            ELSE /\ nodes[i].str \in Range(design)
                 /\ nodes[i].type /= "deleted"
                 /\ CellsOf(nodes[i]) = CellsOf(Walked(nodes[i].str))

\* B with its instance u1 of C is in the design, C itself was dropped
C11_Witness ==
    /\ pc = "done"
    /\ "\\B" \in Range(design)
    /\ "\\C" \in DOMAIN top_nodes
    /\ "\\C" \notin Range(design)
    /\ UnitNamed("\\C").type = "deleted"
    /\ Cell("\\u1", "\\C") \in CellsOf(UnitNamed("\\B"))

(***************************************************************************)
(* Properties of the flattening decision.                                  *)
(***************************************************************************)
\* the declaration has its dimension table filled and one synthetic range
Flattened(w) ==
    /\ w.multirange_dimensions /= << >>
    /\ Len(w.children) = 1
    /\ w.children[1].type = "AST_RANGE"
    /\ w.children[1].right = 0
    /\ w.children[1].left + 1 =
           Product([i \in 1..(Len(w.multirange_dimensions) \div 2) |->
                       w.multirange_dimensions[2 * i]])

\* the declaration keeps its declared ranges and has an empty dimension table
KeepsDeclaredRanges(w) ==
    /\ w.multirange_dimensions = << >>
    /\ w.children = Reverse(declared.packed) \o Reverse(declared.unpacked)

\* the rule of the claim, on the declaration as it was handed in (type, port
\* direction and force_convert are not changed by the call; a named type
\* shows as the wiretype attribute)
DecisionRule(w) ==
    \/ Len(declared.packed) > 1
    \/ Len(declared.unpacked) > 1
    \/ w.attributes.wiretype
    \/ w.type \in {"AST_PARAMETER", "AST_LOCALPARAM"}
    \/ ((w.is_input \/ w.is_output)
        /\ Len(declared.packed) + Len(declared.unpacked) > 0)
    \/ w.attributes.force_convert = 1

\* C12 as stated: the declaration is flattened exactly when the rule holds,
\* and keeps its declared ranges with an empty dimension table otherwise.
C12_FlattenDecision ==
    calls >= 1 =>
        /\ Flattened(after_first) <=> DecisionRule(after_first)
        /\ ~DecisionRule(after_first) => KeepsDeclaredRanges(after_first)

\* C12 amended: the declaration is flattened exactly when it has at least one
\* range (declared, or given by its named type) and the rule holds; otherwise
\* it keeps its declared ranges with an empty dimension table.
C12_FlattenDecisionWithRanges ==
    calls >= 1 =>
        LET has_range == \/ after_first.attributes.has_ranges
                         \/ Len(declared.packed) + Len(declared.unpacked) > 0
        IN /\ Flattened(after_first) <=> (has_range /\ DecisionRule(after_first))
           /\ ~(has_range /\ DecisionRule(after_first))
                  => KeepsDeclaredRanges(after_first)

\* an input port with the one packed range [3:0] is flattened
C12_Witness ==
    /\ calls >= 1
    /\ after_first.type = "AST_WIRE"
    /\ after_first.is_input
    /\ ~after_first.attributes.wiretype
    /\ declared.packed = <<make_range(3, 0)>>
    /\ declared.unpacked = << >>
    /\ after_first.multirange_dimensions = <<0, 4>>
    /\ after_first.children = <<make_range(3, 0)>>

(***************************************************************************)
(* Properties of simplify() on accesses.                                   *)
(***************************************************************************)
\* the product of the declared widths: the size of the flat range
FlatSize == Product([i \in DOMAIN AccessOrder(declared) |->
                        Width(AccessOrder(declared)[i])])

\* the access has no selector and its declaration is flattened when
\* simplify() has passed both
ZeroSelectorCase ==
    /\ declared.selectors = << >>
    /\ visited = {"declaration", "identifier"}
    /\ wire.multirange_dimensions /= << >>

UndeclaredLookup == visited = {"identifier"} /\ "\\x" \notin DOMAIN current_scope

\* the "." notation of a field path without selectors
RECURSIVE PathText(_)
PathText(children) ==
    IF children = << >> THEN ""
    ELSE "." \o substr1(children[1].str) \o PathText(children[1].children)

\* the path has field names only
RECURSIVE OnlyDots(_)
OnlyDots(children) ==
    \/ children = << >>
    \/ /\ Len(children) = 1
       /\ children[1].type = "AST_DOT"
       /\ OnlyDots(children[1].children)

\* C14 as stated: the lookup of an undeclared name raises no error and every
\* component of the field path and every selector is still on the identifier:
\* as its children, or, for a path of field names, in the dotted name.
C14_UndeclaredKeepsAccess ==
    UndeclaredLookup =>
        /\ ~aborted
        /\ \/ ident = Identifier("\\x", declared.selectors)
           \/ /\ OnlyDots(declared.selectors)
              /\ ident.children = << >>
              /\ ident.str = "\\x" \o PathText(declared.selectors)

(***************************************************************************)
(* Properties of process_object.                                           *)
(***************************************************************************)
\* C15 as stated: under warn-and-continue, process_object returns no node for
\* an object whose kind or typespec kind has no lowering rule.
C15_UnhandledGivesNoNode ==
    ~stop_on_error =>
        \A i \in DOMAIN lowered : Unhandled(objects[i]) => lowered[i] = None

(***************************************************************************)
(* Properties of convert_range over all accesses to one declaration.       *)
(***************************************************************************)
\* the declaration has been flattened by simplify()
FlattenedDeclaration ==
    /\ "declaration" \in visited
    /\ ~aborted
    /\ wire.multirange_dimensions /= << >>

\* the index tuples of length k within the declared bounds of the k outermost
\* dimensions
InBounds(k) ==
    { t \in [1..k -> 0..3] :
        \A i \in 1..k :
            /\ t[i] >= Min(AccessOrder(declared)[i].left, AccessOrder(declared)[i].right)
            /\ t[i] <= Max(AccessOrder(declared)[i].left, AccessOrder(declared)[i].right) }

\* what convert_range makes of the access x[t1][t2]...
RangeOf(t) ==
    convert_range(Identifier("\\x", [i \in DOMAIN t |-> Selector(<<t[i]>>)]), wire, 0)

\* C16 as stated: two fully indexed accesses within the declared bounds with
\* different index tuples are rewritten to different single bits, each inside
\* the flat range [size-1:0], whatever the lower bounds of the dimensions.
C16_NoAlias ==
    FlattenedDeclaration =>
        LET n == Len(AccessOrder(declared))
        IN /\ \A t \in InBounds(n) :
                 /\ RangeOf(t).left = RangeOf(t).right
                 /\ RangeOf(t).right >= 0
                 /\ RangeOf(t).right <= FlatSize - 1
           /\ \A t1, t2 \in InBounds(n) :
                 t1 /= t2 => RangeOf(t1).right /= RangeOf(t2).right

\* the same for declarations whose dimensions all have lower bound 0
C16_NoAliasZeroBased ==
    (\A i \in DOMAIN AccessOrder(declared) :
        Min(AccessOrder(declared)[i].left, AccessOrder(declared)[i].right) = 0)
    => C16_NoAlias

\* the declared widths of the dimensions from..to, outermost first
WidthsOf(from, to) ==
    [i \in 1..(to - from + 1) |-> Width(AccessOrder(declared)[from + i - 1])]

NoDimensionSwapped ==
    \A i \in DOMAIN AccessOrder(declared) : ~range_swapped(AccessOrder(declared)[i])

\* C17 as stated: k selectors (1 <= k < n) against a flattened declaration of
\* n dimensions give the slice of width p, the product of the widths of the
\* n - k inner dimensions, whose low bound is p times the row-major offset of
\* the k indices.  Stated for dimensions declared with descending bounds.
C17_PartialSlice ==
    (FlattenedDeclaration /\ NoDimensionSwapped) =>
        LET n == Len(AccessOrder(declared))
        IN \A k \in 1..(n - 1) : \A t \in InBounds(k) :
               LET p == Product(WidthsOf(k + 1, n))
                   o == RowMajor(t, WidthsOf(1, k))
               IN RangeOf(t) = make_range(p * o + p - 1, p * o)

\* the same for declarations whose dimensions all have lower bound 0
C17_PartialSliceZeroBased ==
    (\A i \in DOMAIN AccessOrder(declared) :
        Min(AccessOrder(declared)[i].left, AccessOrder(declared)[i].right) = 0)
    => C17_PartialSlice

\* the selector bounds complemented against the width of the dimension the
\* selector indexes, when that dimension is declared with ascending bounds
Complemented(sels) ==
    [i \in DOMAIN sels |->
        IF range_swapped(AccessOrder(declared)[i])
        THEN Selector([j \in DOMAIN sels[i].children |->
                          Width(AccessOrder(declared)[i]) - 1 - sels[i].children[j]])
        ELSE sels[i]]

AccessTo(sels) == Identifier("\\x", sels)

\* the declaration with no dimension marked swapped
Unswapped(wire_node) ==
    [wire_node EXCEPT !.multirange_swapped = [i \in DOMAIN @ |-> FALSE]]

\* C18 as stated: a selector on a swapped dimension of width w counts as the
\* selector with every bound s replaced by w - 1 - s on the same dimension not
\* swapped, whatever the lower bound, and the flag consulted for selector i is
\* the one of the dimension that selector i indexes.
C18_SwappedComplement ==
    FlattenedDeclaration =>
        \A k \in 1..Len(AccessOrder(declared)) : \A sels \in SeqsOf(Selectors, k) :
            convert_range(AccessTo(sels), wire, 0) =
                convert_range(AccessTo(Complemented(sels)), Unswapped(wire), 0)

\* the same for declarations whose dimensions all have lower bound 0
C18_SwappedComplementZeroBased ==
    (\A i \in DOMAIN AccessOrder(declared) :
        Min(AccessOrder(declared)[i].left, AccessOrder(declared)[i].right) = 0)
    => C18_SwappedComplement

(***************************************************************************)
(* Properties of the traversal order of simplify().                        *)
(***************************************************************************)
\* an access with selectors, no more than the declaration has dimensions, to
\* a declaration of two dimensions or more
IndexedAccess ==
    /\ declared.selectors /= << >>
    /\ Len(declared.selectors) <= Len(AccessOrder(declared))
    /\ Len(AccessOrder(declared)) >= 2

\* C19 as stated: once simplify() has passed the declaration and the access,
\* in either order, an indexed access to a flattened declaration is rewritten
\* to one flat range.
C19_ForwardReferenceResolved ==
    (/\ visited = {"declaration", "identifier"}
     /\ ~aborted
     /\ wire.multirange_dimensions /= << >>
     /\ IndexedAccess)
    => /\ ident.basic_prep
       /\ ident.children = <<convert_range(AccessTo(declared.selectors), wire, 0)>>

\* the access is rewritten when simplify() comes to it after the declaration
C19_ResolvedAfterDeclaration ==
    [][(/\ "declaration" \in visited
        /\ "identifier" \notin visited
        /\ "identifier" \in visited'
        /\ ~aborted'
        /\ wire.multirange_dimensions /= << >>
        /\ IndexedAccess)
       => /\ ident'.basic_prep
          /\ ident'.children = <<convert_range(AccessTo(declared.selectors), wire, 0)>>]_vars

(***************************************************************************)
(* Properties of the partial marker.                                       *)
(***************************************************************************)
\* the entity holds the children of a walked definition (the local parameter
\* L comes with the definition only)
DefinitionWalked(n) == \E k \in DOMAIN n.children : n.children[k].str = "\\L"

\* C20 as stated: an entity whose definition process_module has walked at
\* least once has no partial marker.
C20_WalkedNotPartial ==
    \A id \in DOMAIN nodes :
        DefinitionWalked(nodes[id]) => nodes[id].attributes.partial = 0

\* the step is a definition visit of a type that is registered already
DefinitionRevisited(T) ==
    /\ visits' = visits + 1
    /\ cells' = cells
    /\ T \in DOMAIN top_nodes
    /\ nodes'[top_nodes[T]] /= nodes[top_nodes[T]]

\* C20 amended: a definition visit of a registered entity and an instantiation
\* leave the entity they work on without the marker 1 (a definition visit
\* without any marker); an entity with a walked definition carries at most the
\* marker 1, and then it is the generic entity of its name and no cell
\* references it.
C20_MarkerUntilUsed ==
    /\ [](\A id \in DOMAIN nodes :
            DefinitionWalked(nodes[id]) =>
                /\ nodes[id].attributes.partial \in {0, 1}
                /\ nodes[id].attributes.partial = 1 =>
                      /\ top_nodes[nodes[id].str] = id
                      /\ \A i \in DOMAIN cells : cells[i].entity /= id)
    /\ [][/\ \A T \in Types :
                DefinitionRevisited(T) => nodes'[top_nodes[T]].attributes.partial = 0
          /\ Len(cells') = Len(cells) + 1 =>
                nodes'[Last(cells').entity].attributes.partial \in {0, 2}]_vars

\* an entity whose definition was walked once still carries the marker, and
\* another one lost it by an instantiation
C20_Witness ==
    /\ \E id \in DOMAIN nodes :
           /\ DefinitionWalked(nodes[id])
           /\ nodes[id].attributes.partial = 1
    /\ \E id \in DOMAIN nodes :
           /\ DefinitionWalked(nodes[id])
           /\ nodes[id].attributes.partial = 0
           /\ \E i \in DOMAIN cells : cells[i].entity = id

(***************************************************************************)
(* Properties of expand_dot on nested structs.                             *)
(***************************************************************************)
\* the declared width of a member: of a scalar its range, of a struct the sum
\* over its members
RECURSIVE TotalWidth(_)
TotalWidth(node) ==
    IF node.type = "AST_STRUCT"
    THEN SumFrom([i \in DOMAIN node.children |-> TotalWidth(node.children[i])], 1)
    ELSE IF node.children = << >> THEN 1
    ELSE Width(node.children[1])

MemberIndex(st, dot) ==
    FirstIndex({i \in DOMAIN st.children : st.children[i].str = substr1(dot.str)})

\* the path is made of field names only and every name is a member
RECURSIVE Resolves(_, _)
Resolves(st, dot) ==
    /\ dot.type = "AST_DOT"
    /\ st.type = "AST_STRUCT"
    /\ MemberIndex(st, dot) /= 0
    /\ \/ dot.children = << >>
       \/ /\ Len(dot.children) = 1
          /\ Resolves(st.children[MemberIndex(st, dot)], dot.children[1])

\* the number of names of the path
RECURSIVE PathLength(_)
PathLength(dot) ==
    IF dot.children = << >> THEN 1 ELSE 1 + PathLength(dot.children[1])

\* the field the path ends at
RECURSIVE Innermost(_, _)
Innermost(st, dot) ==
    LET m == st.children[MemberIndex(st, dot)]
    IN IF dot.children = << >> THEN m ELSE Innermost(m, dot.children[1])

\* the low bit of the field the path ends at, inside st: the widths of the
\* members declared after the named member, plus, when the path goes on, the
\* low bit of the rest of the path inside that member
RECURSIVE LowBit(_, _)
LowBit(st, dot) ==
    LET m == MemberIndex(st, dot)
        base == SumFrom([i \in DOMAIN st.children |-> TotalWidth(st.children[i])], m + 1)
    IN IF dot.children = << >> THEN base
       ELSE base + LowBit(st.children[m], dot.children[1])

\* the access is s.path with a path of field names that all exist
NamedPath ==
    /\ Len(declared.selectors) = 1
    /\ Resolves(struct_node, declared.selectors[1])

RECURSIVE FirstScalar(_)
FirstScalar(node) ==
    IF node.type = "AST_STRUCT" THEN FirstScalar(node.children[1]) ELSE node

RECURSIVE LastScalar(_)
LastScalar(node) ==
    IF node.type = "AST_STRUCT" THEN LastScalar(node.children[Len(node.children)])
    ELSE node

\* C22 as stated: a path that ends at a nested struct expands to the range from
\* the left bound of the struct's first descendant scalar to the right bound
\* of its last descendant scalar, also when the first or the last member of
\* the struct is a struct.
C22_NestedStructRange ==
    (/\ Rewritten
     /\ NamedPath
     /\ Innermost(struct_node, declared.selectors[1]).type = "AST_STRUCT")
    => LET f == Innermost(struct_node, declared.selectors[1])
       IN ident.children =
              <<make_range(FirstScalar(f).range_left, LastScalar(f).range_right)>>

\* the same for nested structs whose first and last members are scalars
C22_NestedStructRangeScalarEnds ==
    (/\ Rewritten
     /\ NamedPath
     /\ Innermost(struct_node, declared.selectors[1]).type = "AST_STRUCT"
     /\ LET f == Innermost(struct_node, declared.selectors[1])
        IN /\ f.children[1].type = "AST_STRUCT_ITEM"
           /\ f.children[Len(f.children)].type = "AST_STRUCT_ITEM")
    => C22_NestedStructRange

\* the access is s.f[...] with f a member that is a struct
SelectorOnStructField ==
    /\ Len(declared.selectors) = 1
    /\ declared.selectors[1].type = "AST_DOT"
    /\ MemberIndex(struct_node, declared.selectors[1]) /= 0
    /\ struct_node.children[MemberIndex(struct_node, declared.selectors[1])].type
           = "AST_STRUCT"
    /\ Len(declared.selectors[1].children) = 1
    /\ declared.selectors[1].children[1].type = "AST_RANGE"

\* C23 as stated: with S the size of the struct field and b its low bit, the
\* selector [i] gives the field's range moved by i * S and the selector [l:r]
\* gives the bits b + r * S up to b + (l + 1) * S - 1.
C23_StructSelectorScaled ==
    (Rewritten /\ SelectorOnStructField) =>
        LET f == struct_node.children[MemberIndex(struct_node, declared.selectors[1])]
            sel == declared.selectors[1].children[1].children
            S == TotalWidth(f)
            b == LastScalar(f).range_right
        IN IF Len(sel) = 1
           THEN ident.children =
                    <<make_range(b + S - 1 + sel[1] * S, b + sel[1] * S)>>
           ELSE ident.children =
                    <<make_range(b + (sel[1] + 1) * S - 1, b + sel[2] * S)>>

\* the same for a selector of one index
C23_StructIndexScaled ==
    (/\ SelectorOnStructField
     /\ Len(declared.selectors[1].children[1].children) = 1)
    => C23_StructSelectorScaled

(***************************************************************************)
(* Properties of convert_dot.                                              *)
(***************************************************************************)
\* the access is x[i].path on a declaration with an unpacked dimension, the
\* path made of field names and ending at a scalar
ElementFieldAccess ==
    /\ Len(declared.selectors) = 2
    /\ declared.selectors[1].type = "AST_RANGE"
    /\ declared.unpacked /= << >>
    /\ Resolves(struct_node, declared.selectors[2])
    /\ Innermost(struct_node, declared.selectors[2]).type = "AST_STRUCT_ITEM"

\* C24: for x[i].f the range of f inside one struct is moved by (N - 1 - i) * S
\* with N the width of the outermost declared dimension and S the size of the
\* struct; convert_dot on a declaration whose dimension table is empty aborts.
C24_ElementTerm ==
    (Rewritten /\ ElementFieldAccess) =>
        LET N == Width(AccessOrder(declared)[1])
            i == declared.selectors[1].children[1]
            S == TotalWidth(struct_node)
            low == LowBit(struct_node, declared.selectors[2])
            w == TotalWidth(Innermost(struct_node, declared.selectors[2]))
            term == (N - 1 - i) * S
        IN /\ ident.children = <<make_range(low + w - 1 + term, low + term)>>
           /\ wire.multirange_dimensions /= << >>
           /\ convert_dot([wire EXCEPT !.multirange_dimensions = << >>], struct_node,
                          Identifier("\\x", declared.selectors),
                          declared.selectors[2]).type = "LOG_ERROR"

\* t_t x [1:0] with t_t = {a:[7:0]; b:[3:0]}: x[0].a is [23:16]
C24_Witness ==
    /\ Rewritten
    /\ ElementFieldAccess
    /\ declared.unpacked = <<make_range(1, 0)>>
    /\ declared.selectors[1].children = <<0>>
    /\ ScalarFields(struct_node)
    /\ DeclaredWidths(struct_node) = <<8, 4>>
    /\ declared.selectors[2] = Dot("\\a", << >>)
    /\ ident.children = <<make_range(23, 16)>>

(***************************************************************************)
(* C25: the forced-conversion flag check_memories leaves on a memory       *)
(***************************************************************************)
\* check_memories has returned for the module M and no child of M was
\* simplified yet
MemoriesScanned ==
    /\ pc = "units" /\ AtUnit /\ child_i = 1
    /\ UnitAt.str = "\\M"

ReadmemhTarget(children, str) ==
    \E k \in DOMAIN children :
        children[k].str = "\\$readmemh" /\ children[k].children[2].str = str

WholeReference(children, str) ==
    \E k \in DOMAIN children :
        /\ children[k].type = "AST_IDENTIFIER"
        /\ children[k].str = str
        /\ children[k].children = << >>

\* the flag the order-independent rule gives a memory of these children
FlagByRule(children, node) ==
    IF ReadmemhTarget(children, node.str) THEN 0
    ELSE IF WholeReference(children, node.str) THEN 1
    ELSE node.attributes.force_convert

DeclaredFirst(children) ==
    \A k \in DOMAIN children : is_memory(children[k]) => k = 1

\* C25: after check_memories has scanned a module, a memory that is the
\* target of a $readmemh call has the flag 0, and any other memory that is
\* referenced as a whole has the flag 1, whatever the order of the
\* declaration, the references and the call among the children.
C25_FlagByRule ==
    MemoriesScanned =>
        \A k \in DOMAIN UnitAt.children :
            is_memory(UnitAt.children[k]) =>
                UnitAt.children[k].attributes.force_convert =
                    FlagByRule(UnitAt.children, UnitAt.children[k])

\* what holds instead: the rule gives the flag when the declaration comes
\* before every reference and call
C25_FlagByRuleDeclaredFirst ==
    (MemoriesScanned /\ DeclaredFirst(UnitAt.children)) =>
        \A k \in DOMAIN UnitAt.children :
            is_memory(UnitAt.children[k]) =>
                UnitAt.children[k].attributes.force_convert =
                    FlagByRule(UnitAt.children, UnitAt.children[k])

\* a scan that returns with the flag 1
C25_Flagged ==
    /\ MemoriesScanned
    /\ \E k \in DOMAIN UnitAt.children :
           is_memory(UnitAt.children[k]) /\ UnitAt.children[k].attributes.force_convert = 1

(***************************************************************************)
(* C26: the dimension-size table of packed dimensions [3:0][1:0]           *)
(***************************************************************************)
\* the declaration x with the packed dimensions [3:0][1:0], no unpacked
\* dimension and no named type has been flattened
FlattenedOuter4Inner2 ==
    /\ calls >= 1
    /\ declared.packed = <<make_range(3, 0), make_range(1, 0)>>
    /\ declared.unpacked = << >>
    /\ wire.attributes.id2ast = ""
    /\ ~wire.attributes.wiretype

\* C26: flattening packed dimensions [3:0][1:0] records the table
\* [(0,4),(0,2)], the (lower bound, width) pair of the first-declared, outer
\* dimension first.
C26_TableOuterFirst ==
    FlattenedOuter4Inner2 => wire.multirange_dimensions = <<0, 4, 0, 2>>

\* C26 as the code has it: the table is [(0,2),(0,4)], the pair of the
\* last-declared, inner dimension first and the outer dimension last
C26_TableInnerFirst ==
    FlattenedOuter4Inner2 =>
        /\ wire.multirange_dimensions = <<0, 2, 0, 4>>
        /\ wire.children = <<make_range(7, 0)>>

C26_Witness ==
    /\ FlattenedOuter4Inner2
    /\ wire.multirange_dimensions /= << >>

(***************************************************************************)
(* C27: the registry over several designs                                  *)
(***************************************************************************)
Occurrences(q, e) == Cardinality({i \in DOMAIN q : q[i] = e})

\* visit_designs may return here: the children of a design were appended
DesignsReturned == pc = "appended"

\* a loop of process_design is at a unit that was deleted as partial
AtDeletedUnit == AtUnit /\ child_i = 0 /\ UnitAt.type = "deleted"

\* C27: for any number of designs, every unit of the registry is at most
\* once among the children of the node visit_designs returns and is
\* simplified at most once, and no loop comes back to a unit that was
\* deleted as partial.
C27_ConsumedOnce ==
    /\ DesignsReturned => \A u \in DOMAIN top_nodes : Occurrences(root, u) <= 1
    /\ \A u \in DOMAIN top_nodes : Occurrences(simplify_calls, u) <= 1
    /\ ~AtDeletedUnit

\* what holds instead: the same three statements over the first design
C27_ConsumedOnceFirstDesign ==
    (designs_seen = 0 \/ (designs_seen = 1 /\ DesignsReturned)) =>
        /\ \A u \in DOMAIN top_nodes :
               /\ Occurrences(root, u) <= 1
               /\ Occurrences(simplify_calls, u) <= 1
        /\ ~AtDeletedUnit

\* a second design over a registry that holds a kept and a deleted unit
C27_SecondDesign ==
    /\ designs_seen = 2 /\ DesignsReturned
    /\ \E u \in DOMAIN top_nodes : Occurrences(root, u) = 2
    /\ \E i \in DOMAIN nodes : nodes[i].type = "deleted"

(***************************************************************************)
(* C28: the AST_INITIAL child of a module                                  *)
(***************************************************************************)
Initials == {i \in DOMAIN mod_children : mod_children[i].type = "AST_INITIAL"}

Always == {i \in DOMAIN mod_children : mod_children[i].type = "AST_ALWAYS"}

\* the initial child has children and the first of them is an AST_BLOCK
HoldsBlock(node) ==
    /\ node.kids /= << >>
    /\ node.kids[1].type = "AST_BLOCK"

\* C28: after any sequence of insertions through add_or_replace_child and
\* visit_default_expr the module has at most one AST_INITIAL child, that
\* child holds an AST_BLOCK as its first child, and it precedes every
\* AST_ALWAYS child.
C28_SingleInitial ==
    (inserted > 0 /\ ~aborted) =>
        /\ Cardinality(Initials) <= 1
        /\ \A i \in Initials :
               /\ HoldsBlock(mod_children[i])
               /\ \A a \in Always : i < a

\* what holds instead: at most one AST_INITIAL child, in front of every
\* AST_ALWAYS child; and it holds its block unless it is an initial block
\* that came in without one
C28_SingleInitialInFront ==
    (inserted > 0 /\ ~aborted) =>
        /\ Cardinality(Initials) <= 1
        /\ \A i \in Initials :
               /\ \A a \in Always : i < a
               /\ HoldsBlock(mod_children[i]) \/ mod_children[i].kids = << >>

\* an initial block without a child became the AST_INITIAL of a module that
\* has an always block
C28_EmptyInitial ==
    /\ ~aborted
    /\ Always /= {}
    /\ \E i \in Initials : mod_children[i].kids = << >>

(***************************************************************************)
(* C29: the loop of a streaming operator                                   *)
(***************************************************************************)
\* the slice size of the operator
SliceSize ==
    IF stream.operands[1].type = "AST_CONSTANT" THEN stream.operands[1].integer ELSE 1

\* the iterations that assigned bit b of the left-hand side
Assigning(b) ==
    {k \in DOMAIN iterations : iterations[k].lhs_right <= b /\ b <= iterations[k].lhs_left}

\* the bit of the temporary that iteration k put into bit b
SourceBit(k, b) == iterations[k].rhs_right + (b - iterations[k].lhs_right)

\* the loop so far: the counter started at 0 and was advanced by s, each
\* iteration ran with i <= n - s and assigned lhs[n-1-i : n-i-s] from
\* temp[i+s-1 : i]; the loop has ended only when i > n - s, and if s divides
\* n then every bit was assigned exactly once, chunk c of the temporary
\* being chunk n/s - 1 - c of the left-hand side
StreamLoopShape ==
    loop_pc \in {"test", "done"} =>
        LET n == stream.n
            sz == SliceSize
        IN /\ loop_i = Len(iterations) * sz
           /\ \A k \in DOMAIN iterations :
                  LET it == iterations[k]
                  IN /\ it.i = (k - 1) * sz
                     /\ it.i <= n - sz
                     /\ it.lhs_left = n - 1 - it.i
                     /\ it.lhs_right = n - it.i - sz
                     /\ it.rhs_left = it.i + sz - 1
                     /\ it.rhs_right = it.i
           /\ loop_pc = "done" =>
                  /\ loop_i > n - sz
                  /\ n % sz = 0 =>
                         \A b \in 0..(n - 1) :
                             /\ Cardinality(Assigning(b)) = 1
                             /\ \A k \in Assigning(b) :
                                    /\ SourceBit(k, b) \div sz = n \div sz - 1 - (b \div sz)
                                    /\ SourceBit(k, b) % sz = b % sz

DeclaredTotal == Len(declared.packed) + Len(declared.unpacked)

\* the access has more selectors than the flattened declaration it names
\* has dimensions
TooManySelectors ==
    /\ wire.multirange_dimensions /= << >>
    /\ DeclaredTotal >= 2
    /\ Len(declared.selectors) > DeclaredTotal

\* simplify comes to the access and calls convert_range for it
CallsConvertRange ==
    /\ ~aborted
    /\ "identifier" \notin visited /\ "identifier" \in visited'
    /\ rewrites_access(ident, wire, current_scope, DeclaredTotal)

\* an access to x with one selector: what is left for the other two asserts
\* to stop
OneSelector == Identifier("\\x", <<Selector(<<0>>)>>)

\* the asserts on the scope table and on the dimension table stop the call
OtherAssertsStop ==
    /\ "declaration" \notin visited => ~convert_range_in_scope(OneSelector, current_scope)
    /\ ("declaration" \in visited /\ wire.attributes.has_ranges) =>
           ~convert_range_asserts(OneSelector,
                                  [wire EXCEPT !.multirange_dimensions = << >>],
                                  wire.attributes.packed_ranges,
                                  wire.attributes.unpacked_ranges)

\* C30: a call of convert_range for an access with more selectors than the
\* flattened declaration has dimensions ends in a failed assertion and
\* leaves the access as it was; so does a call for a name that is not in the
\* scope table and one for a declaration with an empty dimension table.
C30_TooManySelectorsAbort ==
    /\ [][(CallsConvertRange /\ TooManySelectors) => (aborted' /\ ident' = ident)]_vars
    /\ [](TooManySelectors => ident = Identifier("\\x", declared.selectors))
    /\ []OtherAssertsStop

C30_Witness ==
    /\ TooManySelectors
    /\ aborted
    /\ visited = {"declaration", "identifier"}
    /\ ident = Identifier("\\x", declared.selectors)

====
